---------------------------- MODULE Spec2Model ----------------------------
(***************************************************************************)
(* Model of the link-extraction tools of the scraping MCP server           *)
(* (src/server.py: extract_site_links, extract_site_links_with_playwright; *)
(* src/reference.py: extract_site_links).                                  *)
(*                                                                         *)
(* Strings are TLA+ strings; TLC evaluates Len, \o, SubSeq, Head and Tail  *)
(* on them, which is enough to compute the Python string methods the code  *)
(* uses (strip, startswith, endswith, split, join, lower) and the          *)
(* urllib.parse functions urlparse and urljoin character by character.     *)
(***************************************************************************)
EXTENDS Integers, Sequences, FiniteSets, TLC

(***************************************************************************)
(* Python string methods.  A value computed once and used several times is *)
(* handed on as an operator argument, as the code binds it to a local.     *)
(***************************************************************************)
\* s[m-1:n], total: the empty string when the range is empty or starts past the end
Sub(s, m, n) ==
    IF m > n \/ m > Len(s) THEN ""
    ELSE SubSeq(s, m, IF n > Len(s) THEN Len(s) ELSE n)

Ch(s, i) == Sub(s, i, i)

Min(S) == CHOOSE i \in S : \A j \in S : i <= j

Max(S) == CHOOSE i \in S : \A j \in S : j <= i

MinOrZero(S) == IF S = {} THEN 0 ELSE Min(S)

\* s[n:]
Drop(s, n) == Sub(s, n + 1, Len(s))

\* s[:n]
Take(s, n) == Sub(s, 1, n)

\* s.startswith(p)
StartsWith(s, p) == Len(p) <= Len(s) /\ Take(s, Len(p)) = p

\* s.endswith(p)
EndsWith(s, p) == Len(p) <= Len(s) /\ Drop(s, Len(s) - Len(p)) = p

\* c in s, for a single character c
Contains(s, c) == \E i \in 1..Len(s) : Ch(s, i) = c

\* s.find(c) + 1 for a single character c: the first position of c, 0 if none
Find(s, c) == MinOrZero({i \in 1..Len(s) : Ch(s, i) = c})

\* the first position in s, at or after from, of a character of the set cs; 0 if none
FindAny(s, cs, from) == MinOrZero({i \in from..Len(s) : Ch(s, i) \in cs})

StripTo(s, keep) == IF keep = {} THEN "" ELSE Sub(s, Min(keep), Max(keep))

\* s.strip(c) for a single character c
Strip(s, c) == StripTo(s, {i \in 1..Len(s) : Ch(s, i) # c})

\* s.split(c) for a single character c: a sequence of strings, never empty
RECURSIVE Split(_, _)
SplitAt(s, c, i) ==
    IF i = 0 THEN <<s>>
    ELSE <<Take(s, i - 1)>> \o Split(Drop(s, i), c)

Split(s, c) == SplitAt(s, c, Find(s, c))

\* c.join(parts)
RECURSIVE Join(_, _)
Join(parts, c) ==
    IF Len(parts) = 0 THEN ""
    ELSE IF Len(parts) = 1 THEN parts[1]
    ELSE parts[1] \o c \o Join(Tail(parts), c)

\* parts[:-1]
ButLast(parts) == SubSeq(parts, 1, Len(parts) - 1)

UpperCase == <<"A", "B", "C", "D", "E", "F", "G", "H", "I", "J", "K", "L", "M",
               "N", "O", "P", "Q", "R", "S", "T", "U", "V", "W", "X", "Y", "Z">>

LowerCase == <<"a", "b", "c", "d", "e", "f", "g", "h", "i", "j", "k", "l", "m",
               "n", "o", "p", "q", "r", "s", "t", "u", "v", "w", "x", "y", "z">>

LowerChar(c) ==
    IF \E k \in 1..26 : UpperCase[k] = c
    THEN LowerCase[CHOOSE k \in 1..26 : UpperCase[k] = c]
    ELSE c

\* s.lower(), on ASCII
RECURSIVE Lower(_)
Lower(s) ==
    IF Len(s) = 0 THEN "" ELSE LowerChar(Ch(s, 1)) \o Lower(Drop(s, 1))

(***************************************************************************)
(* urllib.parse (CPython 3.11): urlsplit/urlparse, urlunparse, urljoin.    *)
(* The ';params' part of a path is not modelled: no modelled URL holds a   *)
(* ';'.                                                                    *)
(***************************************************************************)
Letters == {UpperCase[k] : k \in 1..26} \cup {LowerCase[k] : k \in 1..26}

Digits == {"0", "1", "2", "3", "4", "5", "6", "7", "8", "9"}

scheme_chars == Letters \cup Digits \cup {"+", "-", "."}

uses_relative == {"", "ftp", "http", "gopher", "nntp", "imap", "wais", "file",
                  "https", "shttp", "mms", "prospero", "rtsp", "rtspu", "sftp",
                  "svn", "svn+ssh", "ws", "wss"}

uses_netloc == {"", "ftp", "http", "gopher", "nntp", "telnet", "imap", "wais",
                "file", "mms", "https", "shttp", "snews", "prospero", "rtsp",
                "rtspu", "rsync", "svn", "svn+ssh", "sftp", "nfs", "git",
                "git+ssh", "ws", "wss"}

\* The scheme split of urlsplit, i the position of the first ':': <<scheme, rest>>
SplitSchemeAt(url, default, i) ==
    IF /\ i > 1
       /\ Ch(url, 1) \in Letters
       /\ \A k \in 1..(i - 1) : Ch(url, k) \in scheme_chars
    THEN <<Lower(Take(url, i - 1)), Drop(url, i)>>
    ELSE <<default, url>>

SplitScheme(url, default) == SplitSchemeAt(url, default, Find(url, ":"))

\* _splitnetloc(url, 2), d the position of the first of '/?#': <<netloc, rest>>
SplitNetlocAt(rest, d) ==
    IF d = 0 THEN <<Drop(rest, 2), "">>
    ELSE <<Sub(rest, 3, d - 1), Drop(rest, d - 1)>>

SplitNetloc(rest) ==
    IF Take(rest, 2) = "//"
    THEN SplitNetlocAt(rest, FindAny(rest, {"/", "?", "#"}, 3))
    ELSE <<"", rest>>

\* urlsplit raises ValueError("Invalid IPv6 URL") on an unbalanced bracket
InvalidNetloc(netloc) == Contains(netloc, "[") # Contains(netloc, "]")

UrlParseRaises(url) == InvalidNetloc(SplitNetloc(SplitScheme(url, "")[2])[1])

\* the query split of urlsplit, q the position of the first '?'
ParseQueryAt(scheme, netloc, rest, fragment, q) ==
    [scheme   |-> scheme,
     netloc   |-> netloc,
     path     |-> IF q = 0 THEN rest ELSE Take(rest, q - 1),
     query    |-> IF q = 0 THEN "" ELSE Drop(rest, q),
     fragment |-> fragment]

\* the fragment split of urlsplit, h the position of the first '#'
ParseFragmentAt(scheme, netloc, rest, h) ==
    IF h = 0
    THEN ParseQueryAt(scheme, netloc, rest, "", Find(rest, "?"))
    ELSE ParseQueryAt(scheme, netloc, Take(rest, h - 1), Drop(rest, h),
                      Find(Take(rest, h - 1), "?"))

ParseAfterNetloc(scheme, sn) == ParseFragmentAt(scheme, sn[1], sn[2], Find(sn[2], "#"))

ParseAfterScheme(ss) == ParseAfterNetloc(ss[1], SplitNetloc(ss[2]))

\* urlparse(url, scheme=default)
urlparse_default(url, default) == ParseAfterScheme(SplitScheme(url, default))

urlparse(url) == urlparse_default(url, "")

UnparseNetloc(scheme, netloc, path) ==
    IF netloc # "" \/ (scheme # "" /\ scheme \in uses_netloc /\ Take(path, 2) # "//")
    THEN "//" \o netloc \o (IF path # "" /\ Take(path, 1) # "/" THEN "/" ELSE "") \o path
    ELSE path

\* urlunparse((scheme, netloc, path, '', query, fragment))
urlunparse(scheme, netloc, path, query, fragment) ==
    (IF scheme # "" THEN scheme \o ":" ELSE "")
    \o UnparseNetloc(scheme, netloc, path)
    \o (IF query # "" THEN "?" \o query ELSE "")
    \o (IF fragment # "" THEN "#" \o fragment ELSE "")

\* filter(None, segments)
RECURSIVE FilterEmpty(_)
FilterEmpty(segs) ==
    IF Len(segs) = 0 THEN <<>>
    ELSE IF Head(segs) = "" THEN FilterEmpty(Tail(segs))
    ELSE <<Head(segs)>> \o FilterEmpty(Tail(segs))

\* the dot-segment loop of urljoin
RECURSIVE ResolveDots(_, _)
ResolveDots(segs, acc) ==
    IF Len(segs) = 0 THEN acc
    ELSE IF Head(segs) = ".."
         THEN ResolveDots(Tail(segs), IF Len(acc) = 0 THEN acc ELSE ButLast(acc))
    ELSE IF Head(segs) = "." THEN ResolveDots(Tail(segs), acc)
    ELSE ResolveDots(Tail(segs), Append(acc, Head(segs)))

\* base_parts: bpath.split('/') without a non-empty last part
BaseParts(bp0) == IF bp0[Len(bp0)] # "" THEN ButLast(bp0) ELSE bp0

\* segments[1:-1] = filter(None, segments[1:-1])
FilterMiddle(joined) ==
    IF Len(joined) <= 2 THEN joined
    ELSE <<joined[1]>> \o FilterEmpty(SubSeq(joined, 2, Len(joined) - 1))
         \o <<joined[Len(joined)]>>

ResolvedPath(segments) ==
    Join(IF segments[Len(segments)] \in {".", ".."}
         THEN Append(ResolveDots(segments, <<>>), "")
         ELSE ResolveDots(segments, <<>>), "/")

PathOrSlash(rpath) == IF rpath = "" THEN "/" ELSE rpath

\* the path merge of urljoin
JoinPath(bpath, path) ==
    PathOrSlash(ResolvedPath(
        IF Take(path, 1) = "/" THEN Split(path, "/")
        ELSE FilterMiddle(BaseParts(Split(bpath, "/")) \o Split(path, "/"))))

\* urljoin once both URLs are parsed
JoinParsed(url, b, u) ==
    IF u.scheme # b.scheme \/ u.scheme \notin uses_relative THEN url
    ELSE IF u.scheme \in uses_netloc /\ u.netloc # ""
         THEN urlunparse(u.scheme, u.netloc, u.path, u.query, u.fragment)
    ELSE IF u.path = ""
         THEN urlunparse(u.scheme, IF u.scheme \in uses_netloc THEN b.netloc ELSE u.netloc,
                         b.path, IF u.query = "" THEN b.query ELSE u.query, u.fragment)
    ELSE urlunparse(u.scheme, IF u.scheme \in uses_netloc THEN b.netloc ELSE u.netloc,
                    JoinPath(b.path, u.path), u.query, u.fragment)

JoinWithBase(url, b) == JoinParsed(url, b, urlparse_default(url, b.scheme))

\* urljoin(base, url)
urljoin(base, url) ==
    IF base = "" THEN url
    ELSE IF url = "" THEN base
    ELSE JoinWithBase(url, urlparse(base))

(***************************************************************************)
(* Pattern extraction and the same-domain test.  The two tools each define *)
(* their own extract_url_pattern; both are translated.                     *)
(***************************************************************************)
\* A pattern that puts the wildcard in even when a single segment remains
PatternOfPartsAlways(path, parts) == "/" \o Join(ButLast(parts) \o <<"*">>, "/") \o "/"

\* the return statements of extract_url_pattern, parts = relative_path.split('/')
PatternOfParts(path, parts) ==
    IF Len(parts) >= 2
    THEN "/" \o Join(ButLast(parts) \o <<"*">>, "/") \o "/"
    ELSE path

PatternOfRelative(path, relative_path) ==
    IF relative_path # "" THEN PatternOfParts(path, Split(relative_path, "/")) ELSE path

\* relative_path: full_path without a leading base_path
RelativePath(full_path, base_path) ==
    IF base_path # "" /\ StartsWith(full_path, base_path)
    THEN Strip(Drop(full_path, Len(base_path)), "/")
    ELSE full_path

\* A detection in which a URL that urlparse refuses has no pattern of its own
PatternWithoutFallback(url, base_url) ==
    PatternOfRelative(urlparse(url).path,
                      RelativePath(Strip(urlparse(url).path, "/"),
                                   Strip(urlparse(base_url).path, "/")))

\* extract_url_pattern of extract_site_links
extract_url_pattern(url, base_url) ==
    IF UrlParseRaises(url) \/ UrlParseRaises(base_url) THEN url
    ELSE PatternOfRelative(urlparse(url).path,
                           RelativePath(Strip(urlparse(url).path, "/"),
                                        Strip(urlparse(base_url).path, "/")))

PatternOfPartsPw(path, parts) ==
    IF Len(parts) >= 2
    THEN "/" \o Join(ButLast(parts) \o <<"*">>, "/") \o "/"
    ELSE path

PatternOfRelativePw(path, relative_path) ==
    IF relative_path = "" THEN path
    ELSE PatternOfPartsPw(path, Split(relative_path, "/"))

\* A relative path that keeps the base path in front
RelativePathKept(full_path, base_path) == full_path

RelativePathPw(full_path, base_path) ==
    IF base_path # "" /\ StartsWith(full_path, base_path)
    THEN Strip(Drop(full_path, Len(base_path)), "/")
    ELSE full_path

\* extract_url_pattern of extract_site_links_with_playwright
extract_url_pattern_pw(url, base_url) ==
    IF UrlParseRaises(url) \/ UrlParseRaises(base_url) THEN url
    ELSE PatternOfRelativePw(urlparse(url).path,
                             RelativePathPw(Strip(urlparse(url).path, "/"),
                                            Strip(urlparse(base_url).path, "/")))

\* netloc.split(':')[0].lower()
DomainOfNetloc(netloc) == Lower(Split(netloc, ":")[1])

\* base_domain = urlparse(url).netloc.split(':')[0].lower()
base_domain_of(url) == DomainOfNetloc(urlparse(url).netloc)

SameOrSubdomain(netloc, base_domain) ==
    netloc = base_domain \/ EndsWith(netloc, "." \o base_domain)

\* is_same_domain(target), with the enclosing base_domain as a parameter
is_same_domain(target, base_domain) ==
    IF UrlParseRaises(target) THEN FALSE
    ELSE SameOrSubdomain(DomainOfNetloc(urlparse(target).netloc), base_domain)

(***************************************************************************)
(* The page.  A page is the sequence of its anchors that carry an href, in *)
(* document order.  Each anchor records its stripped visible text, its     *)
(* href, the region element it lies in (the page's first header, its first *)
(* footer, or neither: "body") and the nav element it lies in (0: none).   *)
(* Nav 1 is a <nav> outside the header, nav 2 a <nav> inside the header,   *)
(* nav 3 a <nav class="navbar"> outside the header.  Navs nested in navs   *)
(* are not modelled.                                                       *)
(***************************************************************************)
NavIds == {1, 2, 3}

NavClass(n) == IF n = 3 THEN "navbar" ELSE ""

Anchor(text, href, region, nav) ==
    [text |-> text, href |-> href, region |-> region, nav |-> nav]

\* A link record as extract_links_from_element builds it.  content_headings is
\* <<>> while the dict has no such key and <<list>> once it has.
Link(text, url) == [text |-> text, url |-> url, content_headings |-> <<>>]

MapSeq(s, F(_)) == [i \in 1..Len(s) |-> F(s[i])]

\* element.find_all('a', href=True) for the header or the footer element
RegionAnchors(page, region) == SelectSeq(page, LAMBDA a : a.region = region)

\* element.find_all('a', href=True) for nav element n
NavAnchors(page, n) == SelectSeq(page, LAMBDA a : a.nav = n)

\* extract_links_from_element of extract_site_links
extract_links_from_element(anchors, url) ==
    MapSeq(SelectSeq(anchors, LAMBDA a : a.text # ""),
           LAMBDA a : Link(a.text, urljoin(url, a.href)))

\* href.startswith(('tel:', 'mailto:', 'javascript:', '#'))
SkippedHref(href) ==
    \/ StartsWith(href, "tel:")
    \/ StartsWith(href, "mailto:")
    \/ StartsWith(href, "javascript:")
    \/ StartsWith(href, "#")

\* extract_links_from_element of extract_site_links_with_playwright
extract_links_from_element_pw(anchors, url) ==
    MapSeq(SelectSeq(anchors, LAMBDA a : ~SkippedHref(a.href) /\ a.text # ""),
           LAMBDA a : Link(a.text, urljoin(url, a.href)))

ExtractLinks(tool, anchors, url) ==
    IF tool = "aiohttp" THEN extract_links_from_element(anchors, url)
    ELSE extract_links_from_element_pw(anchors, url)

\* The nav elements in document order (a nav is placed by its first anchor)
RECURSIVE NavOrder(_, _)
NavOrder(page, acc) ==
    IF Len(page) = 0 THEN acc
    ELSE IF Head(page).nav = 0 \/ \E k \in 1..Len(acc) : acc[k] = Head(page).nav
         THEN NavOrder(Tail(page), acc)
    ELSE NavOrder(Tail(page), Append(acc, Head(page).nav))

\* soup.find_all("nav")
NavTags(page) == NavOrder(page, <<>>)

\* soup.select('.nav, .navbar, .navigation')
NavByClass(page) == SelectSeq(NavOrder(page, <<>>), LAMBDA n : NavClass(n) # "")

\* nav_elements of the tool
NavElements(tool, page) ==
    IF tool = "aiohttp" THEN NavTags(page) ELSE NavTags(page) \o NavByClass(page)

\* nav n is one of header.find_all("nav")
InHeader(page, n) == \E i \in 1..Len(page) : page[i].nav = n /\ page[i].region = "header"

\* What Tag.__eq__ compares: the element's name, attributes and contents
NavMarkup(page, n) ==
    <<NavClass(n), MapSeq(NavAnchors(page, n), LAMBDA a : <<a.text, a.href>>)>>

\* nav not in header_navs
NotInHeaderNavs(page, n) ==
    \A h \in NavIds : InHeader(page, h) => NavMarkup(page, n) # NavMarkup(page, h)

\* independent_navs
IndependentNavs(tool, page) ==
    SelectSeq(NavElements(tool, page), LAMBDA n : NotInHeaderNavs(page, n))

RECURSIVE ExtendAll(_, _, _, _)
\* for nav in independent_navs: nav_links.extend(extract_links_from_element(nav))
ExtendAll(tool, page, url, navs) ==
    IF Len(navs) = 0 THEN <<>>
    ELSE ExtractLinks(tool, NavAnchors(page, Head(navs)), url)
         \o ExtendAll(tool, page, url, Tail(navs))

NavLinks(tool, page, url) == ExtendAll(tool, page, url, IndependentNavs(tool, page))

\* A membership test that takes every URL for a new one
AlwaysNew(url_key, seen_urls) == TRUE

\* url_key not in seen_urls
NotSeen(url_key, seen_urls) == url_key \notin seen_urls

\* The merge loop over [header_links, footer_links, nav_links], concatenated
RECURSIVE MergeLoop(_, _, _)
MergeLoop(links, seen_urls, all) ==
    IF Len(links) = 0 THEN all
    ELSE IF NotSeen(Head(links).url, seen_urls)
         THEN MergeLoop(Tail(links), seen_urls \cup {Head(links).url}, Append(all, Head(links)))
    ELSE MergeLoop(Tail(links), seen_urls, all)

MergeLinks(header, footer, nav) == MergeLoop(header \o footer \o nav, {}, <<>>)

\* The JavaScript fallback: every anchor of the document with an href that does
\* not start with tel:, mailto: or javascript:, first occurrence of each resolved
\* href kept.  link.href is the href resolved against the page's URL.
JsText(text) == IF text = "" THEN "No text" ELSE text

JsSkipped(href) ==
    \/ href = ""
    \/ StartsWith(href, "tel:")
    \/ StartsWith(href, "mailto:")
    \/ StartsWith(href, "javascript:")

RECURSIVE JsLoop(_, _, _)
JsLoop(links, seen, found) ==
    IF Len(links) = 0 THEN found
    ELSE IF ~JsSkipped(Head(links).url) /\ Head(links).url \notin seen
         THEN JsLoop(Tail(links), seen \cup {Head(links).url}, Append(found, Head(links)))
    ELSE JsLoop(Tail(links), seen, found)

js_links(page, url) ==
    JsLoop(MapSeq(page, LAMBDA a : Link(JsText(a.text), urljoin(url, a.href))), {}, <<>>)

threshold == 10

\* A count test that lets a pattern shared by exactly `limit` links through
IsRepeatedAbove(count, limit) == count > limit

\* count >= threshold
IsRepeated(count, limit) == count >= limit

PatternFor(tool, url, base_url) ==
    IF tool = "aiohttp" THEN extract_url_pattern(url, base_url)
    ELSE extract_url_pattern_pw(url, base_url)

\* pattern_counts[pattern], patterns the pattern of each link of all_links
PatternCount(patterns, pattern) ==
    Cardinality({i \in 1..Len(patterns) : patterns[i] = pattern})

\* urls_to_exclude, from the pattern of each link
UrlsToExclude(all, patterns, limit) ==
    {all[i].url : i \in {j \in 1..Len(all) :
                           IsRepeated(PatternCount(patterns, patterns[j]), limit)}}

\* detect_repeated_patterns(all_links, threshold, base_url)
detect_repeated_patterns(tool, all, limit, base_url) ==
    UrlsToExclude(all, MapSeq(all, LAMBDA l : PatternFor(tool, l.url, base_url)), limit)

\* A filter that hands the kept links back last first
ExcludeAndReverse(all, urls_to_exclude) ==
    [k \in 1..Len(SelectSeq(all, LAMBDA l : l.url \notin urls_to_exclude)) |->
        SelectSeq(all, LAMBDA l : l.url \notin urls_to_exclude)
            [Len(SelectSeq(all, LAMBDA l : l.url \notin urls_to_exclude)) + 1 - k]]

\* [link for link in all_links if link['url'] not in urls_to_exclude]
ExcludeUrls(all, urls_to_exclude) ==
    SelectSeq(all, LAMBDA l : l.url \notin urls_to_exclude)

\* filtered_links
FilterLinks(tool, all, base_url) ==
    ExcludeUrls(all, detect_repeated_patterns(tool, all, threshold, base_url))

(***************************************************************************)
(* Heading enrichment of extract_site_links                                *)
(***************************************************************************)
max_fetch == 20

concurrency == 5

max_headings == 100

\* The site: the h2 and h3 texts (get_text(strip=True), in document order) of
\* the page served at target_url.  Every page has its own texts, one empty
\* heading and one text that is both an h2 and an h3.
H2Of(target_url) == <<"About " \o target_url, "", "News">>

H3Of(target_url) == <<"News", "Contact " \o target_url>>

\* The h2 texts of a site's error page (served with a status other than 200)
ErrorPageH2 == <<"Not Found">>

\* The positions of merged whose item is not in seen when the loop reaches it:
\* not in seen at the start and at no earlier position
Appended(merged, seen) ==
    {k \in DOMAIN merged :
        merged[k] \notin seen /\ \A j \in 1..(k - 1) : merged[j] # merged[k]}

\* The items at the given positions, in the order of the positions
ItemsAt(merged, at) ==
    [i \in 1..Cardinality(at) |->
        merged[CHOOSE k \in at : Cardinality({j \in at : j <= k}) = i]]

\* for item in merged: if item not in seen: seen.add(item); unique_list.append(item)
UniqueLoop(merged, seen, unique_list) ==
    unique_list \o ItemsAt(merged, Appended(merged, seen))

FirstN(list, n) == IF Len(list) <= n THEN list ELSE SubSeq(list, 1, n)

\* The headings without the limit of max_headings
HeadingsUncapped(h2, h3) ==
    UniqueLoop(SelectSeq(h2, LAMBDA t : t # "") \o SelectSeq(h3, LAMBDA t : t # ""), {}, <<>>)

\* extract_headings(soup)
extract_headings(h2, h3) ==
    FirstN(UniqueLoop(SelectSeq(h2, LAMBDA t : t # "") \o SelectSeq(h3, LAMBDA t : t # ""),
                      {}, <<>>),
           max_headings)

\* How a heading fetch can end: status 200, another status, or an exception
\* (a timeout, a connection error)
FetchEnds == {"200", "status", "exception"}

\* A fetch that reads the headings of whatever page came back, whatever its status
FetchIgnoringStatus(target_url, end) ==
    IF end = "200" THEN extract_headings(H2Of(target_url), H3Of(target_url))
    ELSE IF end = "status" THEN extract_headings(ErrorPageH2, <<>>)
    ELSE <<>>

\* fetch_headings_for_url(session, target_url), for each way the fetch can end
fetch_headings_for_url(target_url, end) ==
    IF end = "200" THEN extract_headings(H2Of(target_url), H3Of(target_url))
    ELSE <<>>

\* [i for i, l in enumerate(filtered_links) if is_same_domain(l['url'])]
SameDomainIndices(filtered, base_domain) ==
    SelectSeq([i \in 1..Len(filtered) |-> i],
              LAMBDA i : is_same_domain(filtered[i].url, base_domain))

\* eligible_indices
EligibleIndices(filtered, base_url) ==
    FirstN(SameDomainIndices(filtered, base_domain_of(base_url)), max_fetch)

\* tasks: one bound_fetch(i, filtered_links[i]['url']) per eligible index
CreateTasks(filtered, eligible) ==
    [k \in 1..Len(eligible) |->
        [idx |-> eligible[k], target_url |-> filtered[eligible[k]].url,
         state |-> "pending", ended |-> "", result |-> <<>>]]

\* A semaphore that lets every task in
AlwaysFree(value) == TRUE

\* async with sem: the semaphore lets a task in
SemFree(value) == value > 0

\* Storing by position in the result list instead of by the index carried
ResultPosition(k, res) == k

\* The link a result tuple (idx, headings) of task k is stored on
ResultIndex(k, res) == res[1]

\* for res in results: filtered_links[idx]["content_headings"] = headings
RECURSIVE StoreResults(_, _, _)
StoreResults(filtered, allTasks, k) ==
    IF k > Len(allTasks) THEN filtered
    ELSE StoreResults(
           [filtered EXCEPT ![ResultIndex(k, allTasks[k].result)].content_headings =
                                <<allTasks[k].result[2]>>],
           allTasks, k + 1)

\* A link left as it is, with or without the key
LeftAsItIs(link) == link

\* if "content_headings" not in link_item: link_item["content_headings"] = []
WithDefault(link) ==
    IF link.content_headings = <<>> THEN [link EXCEPT !.content_headings = << <<>> >>]
    ELSE link

SetDefaults(filtered) == MapSeq(filtered, WithDefault)

\* for link_item in filtered_links: link_item["content_headings"] = []
SetEmpty(filtered) == MapSeq(filtered, LAMBDA l : [l EXCEPT !.content_headings = << <<>> >>])

(***************************************************************************)
(* Payloads (the JSON object a tool returns)                               *)
(***************************************************************************)
NoPayload ==
    [kind |-> "none", keys |-> {}, error |-> "", base_url |-> "", total_links |-> 0,
     filtered_links |-> 0, links |-> <<>>,
     sections |-> [header_links |-> 0, footer_links |-> 0, nav_links |-> 0]]

\* A failure reported as a bare message, without base_url and links
ErrorMessageOnly(error_msg, base_url) ==
    [kind |-> "error", keys |-> {"error"}, error |-> error_msg, base_url |-> "",
     total_links |-> 0, filtered_links |-> 0, links |-> <<>>,
     sections |-> [header_links |-> 0, footer_links |-> 0, nav_links |-> 0]]

ErrorPayload(error_msg, base_url) ==
    [kind |-> "error", keys |-> {"error", "base_url", "links"}, error |-> error_msg,
     base_url |-> base_url, total_links |-> 0, filtered_links |-> 0, links |-> <<>>,
     sections |-> [header_links |-> 0, footer_links |-> 0, nav_links |-> 0]]

SuccessKeys(t) ==
    {"base_url", "total_links", "filtered_links", "links", "sections"}
    \cup (IF t = "playwright" THEN {"debug_info"} ELSE {})

SuccessPayload(t, base_url, all, filtered, header, footer, nav) ==
    [kind |-> "success", keys |-> SuccessKeys(t), error |-> "", base_url |-> base_url,
     total_links |-> Len(all), filtered_links |-> Len(filtered), links |-> filtered,
     sections |-> [header_links |-> Len(header), footer_links |-> Len(footer),
                   nav_links |-> Len(nav)]]

(***************************************************************************)
(* State                                                                   *)
(***************************************************************************)
VARIABLES
    fn_url,         \* the URL handed to the helper functions
    fn_base,        \* the base URL (the tool's url argument)
    fn_pattern,     \* <<>> or <<result of extract_site_links' extract_url_pattern>>
    fn_pattern_pw,  \* <<>> or <<result of the Playwright tool's extract_url_pattern>>
    fn_same,        \* <<>> or <<result of is_same_domain>>
    PLAYWRIGHT_AVAILABLE,  \* whether the playwright import succeeded
    page,           \* the site: the anchors of the page served at url
    url,            \* the tool's argument
    tool,           \* the tool invoked: "none", "aiohttp" or "playwright"
    pc,             \* where the invocation stands
    header_links,
    footer_links,
    nav_links,
    all_links,
    filtered_links,
    eligible_indices,
    sem,            \* the value of the invocation's asyncio.Semaphore
    tasks,          \* the bound_fetch tasks, in creation order
    overtaken,      \* history: a fetch ended while the fetch of a task created
                    \* before it was still in flight
    payload         \* what the tool returned

VARIABLES
    browser_semaphore,  \* the value of the module's asyncio.Semaphore(MAX_BROWSERS)
    callers,            \* how many invocations of the browser tools stand at each place
    exits               \* history: an invocation was turned down before the semaphore,
                        \* an exception was raised on the JavaScript fallback

browservars == <<browser_semaphore, callers, exits>>

VARIABLES
    requests            \* the local state of each of the concurrent invocations of
                        \* extract_site_links

reqvars == <<requests>>

VARIABLES
    wp_call,            \* the WordPress tool invoked and its per_page and page arguments
    wp_params,          \* the per_page and page parameters of the request it sent
    wp_result           \* what the invocation gave its caller

wpvars == <<wp_call, wp_params, wp_result>>

VARIABLES
    gs_call,            \* read_google_sheet: its arguments, full_range, sheet_names
                        \* (listed: the metadata request answered) and where the
                        \* invocation stands
    gs_read,            \* the ranges it asked the values of
    gs_result           \* what the invocation gave its caller

gsvars == <<gs_call, gs_read, gs_result>>

VARIABLES
    gym_call,           \* the Cloud GYM tool invoked: max_posts as asked and as
                        \* clamped, the loop's next post, where the invocation stands
    raw_posts,          \* the links of the posts the search gave, in its order
    valid_posts,        \* the posts kept so far
    processed_count,    \* how many posts were kept so far
    fetched,            \* history: the post pages requested, in order
    gym_result          \* what the invocation gave its caller

gymvars == <<gym_call, raw_posts, valid_posts, processed_count, fetched, gym_result>>

VARIABLES
    upd_call,           \* the Rakuraku update tool invoked, its arguments and where
                        \* the invocation stands
    upd_sent,           \* the bodies handed to _rakuraku_wp_post
    upd_result          \* what the invocation gave its caller

updvars == <<upd_call, upd_sent, upd_result>>

\* The state of the tools that call an API
apivars == <<wpvars, gsvars, gymvars, updvars>>

VARIABLES
    det_links,          \* a batch of merged links handed to detect_repeated_patterns
    det_result,         \* the patterns, the URLs to exclude and the filtered list
    hd_page,            \* the h2 and h3 texts of a fetched page, in document order
    hd_result           \* what extract_headings returned for it

batchvars == <<det_links, det_result, hd_page, hd_result>>

\* The state of the server beyond one invocation of a link-extraction tool
srvvars == <<browservars, reqvars, apivars, batchvars>>

fnvars == <<fn_url, fn_base, fn_pattern, fn_pattern_pw, fn_same>>

envvars == <<PLAYWRIGHT_AVAILABLE, page, url>>

listvars == <<header_links, footer_links, nav_links, all_links>>

toolvars == <<tool, pc, header_links, footer_links, nav_links, all_links, filtered_links,
              eligible_indices, sem, tasks, overtaken, payload>>

vars == <<fn_url, fn_base, fn_pattern, fn_pattern_pw, fn_same, PLAYWRIGHT_AVAILABLE, page,
          url, tool, pc, header_links, footer_links, nav_links, all_links, filtered_links,
          eligible_indices, sem, tasks, overtaken, payload, srvvars>>

(***************************************************************************)
(* The browser tools, fetch_page_content_with_playwright and               *)
(* extract_site_links_with_playwright, under the module's semaphore.       *)
(* Invocations are alike but for their tool, so the state counts the       *)
(* invocations at each place of each tool.                                 *)
(***************************************************************************)
MAX_BROWSERS == 5

BrowserTools == {"fetch_page_content_with_playwright", "extract_site_links_with_playwright"}

\* Where an invocation stands:
\*   waiting   at `async with browser_semaphore`, no permit yet
\*   acquired  permit held, inside try, browser not launched yet
\*   browser   p.chromium.launch returned; the page is loaded and read
\*   parsing   (link tool) the `async with async_playwright() as p` block is
\*             left; the HTML is parsed and the links are merged
\*   relaunch  (link tool) no link found: the fallback enters async_playwright
\*   browser2  (link tool) p2.chromium.launch returned
\*   closing   the finally block
\*   returned  the permit is given back and the tool has returned
BrowserPcs ==
    {"waiting", "acquired", "browser", "parsing", "relaunch", "browser2", "closing",
     "returned"}

Places == [tool : BrowserTools, at : BrowserPcs]

Place(t, where) == [tool |-> t, at |-> where]

\* Browsers still open once `async with async_playwright()` is left: stopping
\* Playwright ends the driver, which closes every browser it launched
LeftOpenByExit == 0

\* The browsers an invocation at a place has open
BrowsersAt(where) ==
    IF where = "browser" THEN 1
    ELSE IF where \in {"parsing", "relaunch"} THEN LeftOpenByExit
    ELSE IF where = "browser2" THEN LeftOpenByExit + 1
    ELSE 0

RECURSIVE SumOver(_, _)
SumOver(places, weight) ==
    IF places = {} THEN 0
    ELSE weight[CHOOSE pl \in places : TRUE]
         + SumOver(places \ {CHOOSE pl \in places : TRUE}, weight)

\* The invocations made so far
Invocations(counts) == SumOver(Places, counts)

\* A semaphore that lets every invocation in
AlwaysPermitted(value) == TRUE

\* async with browser_semaphore: the semaphore lets an invocation in
BrowserPermit(value) == value > 0

\* One invocation moves from a place to another
Move(counts, from, to) ==
    [counts EXCEPT ![from] = counts[from] - 1, ![to] = counts[to] + 1]

\* A semaphore that keeps the permit of an invocation that leaves
ReleaseForgotten(value) == value

\* leaving `async with browser_semaphore`: Semaphore.release()
SemaphoreRelease(value) == value + 1

NoExits == [rejected |-> FALSE, fallback_failed |-> FALSE]

NoBrowserCall ==
    /\ browser_semaphore = MAX_BROWSERS
    /\ callers = [pl \in Places |-> 0]
    /\ exits = NoExits

\* No WordPress tool invoked yet
NoWpCall ==
    /\ wp_call = [tool |-> "none", per_page |-> 0, page |-> 0]
    /\ wp_params = [sent |-> FALSE, per_page |-> 0, page |-> 0]
    /\ wp_result = [kind |-> "none", error |-> ""]

\* read_google_sheet not invoked yet
NoSheetCall ==
    /\ gs_call = [at |-> "none", range_name |-> "", sheet_name |-> "",
                  full_range |-> <<>>, listed |-> FALSE, sheet_names |-> <<>>]
    /\ gs_read = <<>>
    /\ gs_result = [kind |-> "none", keys |-> {}, success |-> FALSE, error |-> "",
                    range |-> ""]

NoGymResult ==
    [kind |-> "none", keys |-> {}, success |-> FALSE, error |-> "", store_ids |-> {},
     posts |-> <<>>]

\* No Cloud GYM tool invoked yet
NoGymCall ==
    /\ gym_call = [tool |-> "none", asked |-> 0, max_posts |-> 0, next |-> 0,
                   at |-> "none"]
    /\ raw_posts = <<>>
    /\ valid_posts = <<>>
    /\ processed_count = 0
    /\ fetched = <<>>
    /\ gym_result = NoGymResult

NoUpdateResult == [kind |-> "none", error |-> ""]

\* No Rakuraku update tool invoked yet
NoUpdateCall ==
    /\ upd_call = [tool |-> "none", title |-> "", content |-> "", excerpt |-> "",
                   slug |-> "", status |-> "", fields_json |-> "", container |-> "",
                   wrap_payload |-> FALSE, at |-> "none"]
    /\ upd_sent = <<>>
    /\ upd_result = NoUpdateResult

\* detect_repeated_patterns not applied yet
NoDetection ==
    [tool |-> "none", patterns |-> <<>>, urls_to_exclude |-> {}, filtered_links |-> <<>>]

\* No page handed to extract_headings
NoPage == [h2 |-> <<>>, h3 |-> <<>>]

\* extract_headings not applied yet
NoHeadings == [done |-> FALSE, headings |-> <<>>]

\* Every part of the server but the named one is idle
ServerIdle(part) ==
    /\ IF part = "browsers" THEN TRUE ELSE NoBrowserCall
    /\ IF part = "requests" THEN TRUE ELSE requests = <<>>
    /\ IF part = "wordpress" THEN TRUE ELSE NoWpCall
    /\ IF part = "sheets" THEN TRUE ELSE NoSheetCall
    /\ IF part = "gym" THEN TRUE ELSE NoGymCall
    /\ IF part = "updates" THEN TRUE ELSE NoUpdateCall
    /\ IF part = "batch" THEN TRUE ELSE det_links = <<>> /\ det_result = NoDetection
    /\ IF part = "headings" THEN TRUE ELSE hd_page = NoPage /\ hd_result = NoHeadings

\* No tool invoked yet
Idle ==
    /\ tool = "none"
    /\ pc = "idle"
    /\ header_links = <<>>
    /\ footer_links = <<>>
    /\ nav_links = <<>>
    /\ all_links = <<>>
    /\ filtered_links = <<>>
    /\ eligible_indices = <<>>
    /\ sem = 0
    /\ tasks = <<>>
    /\ overtaken = FALSE
    /\ payload = NoPayload

NoHelperCall ==
    /\ fn_url = ""
    /\ fn_base = ""
    /\ fn_pattern = <<>>
    /\ fn_pattern_pw = <<>>
    /\ fn_same = <<>>

(***************************************************************************)
(* The helper functions on their own: every (URL, base URL) pair of a      *)
(* bounded universe, each helper applied once.                             *)
(***************************************************************************)
MaxDepth == 3

PathSegments == {"blog", "blogger", "2023", "about"}

\* the paths of exactly d segments
RECURSIVE PathsOfDepth(_)
PathsOfDepth(d) ==
    IF d = 0 THEN {""}
    ELSE {p \o "/" \o seg : p \in PathsOfDepth(d - 1), seg \in PathSegments}

PlainPaths == UNION {PathsOfDepth(d) : d \in 0..MaxDepth}

GeneratedPaths == PlainPaths \cup {p \o "/" : p \in PlainPaths}

SpecialUrls ==
    {"https://example.com/blog/2023/post-1", "https://example.com/blog/2023/post-2",
     "https://example.com/blog//2023//x", "https://example.com/blog/2023/?p=1",
     "https://example.com/blog#top", "mailto:a@b.com",
     "https://sub.example.com/x/y", "https://notexample.com/a",
     "https://example.com.evil.test/", "https://EXAMPLE.com:8080/q/w",
     "https://example.com:pw@evil.test/a/b", "https://x@example.com/",
     "http://[::1/x/y", "https://example.com/blogger/x/y"}

PatternUrls == {"https://example.com" \o p : p \in GeneratedPaths} \cup SpecialUrls

PatternBases ==
    {"https://example.com", "https://example.com/", "https://example.com/blog",
     "https://example.com/blog/", "https://example.com/blog/2023",
     "https://Example.com:443/blog"}

InitPattern ==
    /\ ServerIdle("")
    /\ fn_url \in PatternUrls
    /\ fn_base \in PatternBases
    /\ fn_pattern = <<>>
    /\ fn_pattern_pw = <<>>
    /\ fn_same = <<>>
    /\ PLAYWRIGHT_AVAILABLE = TRUE
    /\ page = <<>>
    /\ url = ""
    /\ Idle

EvalPattern ==
    /\ fn_pattern = <<>>
    /\ fn_pattern' = <<extract_url_pattern(fn_url, fn_base)>>
    /\ UNCHANGED <<fn_url, fn_base, fn_pattern_pw, fn_same, envvars, toolvars, srvvars>>

EvalPatternPw ==
    /\ fn_pattern_pw = <<>>
    /\ fn_pattern_pw' = <<extract_url_pattern_pw(fn_url, fn_base)>>
    /\ UNCHANGED <<fn_url, fn_base, fn_pattern, fn_same, envvars, toolvars, srvvars>>

EvalSameDomain ==
    /\ fn_same = <<>>
    /\ fn_same' = <<is_same_domain(fn_url, base_domain_of(fn_base))>>
    /\ UNCHANGED <<fn_url, fn_base, fn_pattern, fn_pattern_pw, envvars, toolvars, srvvars>>

NextPattern == EvalPattern \/ EvalPatternPw \/ EvalSameDomain

SpecPattern == InitPattern /\ [][NextPattern]_vars

(***************************************************************************)
(* One invocation of a link-extraction tool.  An action is one stretch of  *)
(* the coroutine between two awaits.                                       *)
(***************************************************************************)
\* extract_site_links(url) is called: the page request is sent
CallAiohttp ==
    /\ pc = "idle"
    /\ tool' = "aiohttp"
    /\ pc' = "fetching"
    /\ UNCHANGED <<fnvars, envvars, srvvars, overtaken,
                   listvars, filtered_links, eligible_indices, sem, tasks,
                   payload>>

\* The page request fails: a status other than 200, or an exception
PageFailed ==
    /\ pc = "fetching"
    /\ \E error_msg \in {"Failed to fetch page: 404", "TimeoutError"} :
          payload' = ErrorPayload(error_msg, url)
    /\ pc' = "done"
    /\ UNCHANGED <<fnvars, envvars, srvvars, overtaken,
                   tool, listvars, filtered_links, eligible_indices, sem,
                   tasks>>

\* What the tool returns when no heading fetch runs or all have ended
Finished(filtered) ==
    SuccessPayload(tool, url, all_links', SetDefaults(filtered), header_links',
                   footer_links', nav_links')

\* The page arrives with status 200: the links are extracted, merged and
\* filtered, and the heading fetches are created (none: the tool returns)
PageFetched ==
    /\ pc = "fetching"
    /\ header_links' = ExtractLinks(tool, RegionAnchors(page, "header"), url)
    /\ footer_links' = ExtractLinks(tool, RegionAnchors(page, "footer"), url)
    /\ nav_links' = NavLinks(tool, page, url)
    /\ all_links' = MergeLinks(header_links', footer_links', nav_links')
    /\ sem' = concurrency
    /\ eligible_indices' = EligibleIndices(FilterLinks(tool, all_links', url), url)
    /\ tasks' = CreateTasks(FilterLinks(tool, all_links', url), eligible_indices')
    /\ IF Len(tasks') = 0
       THEN /\ filtered_links' = SetDefaults(FilterLinks(tool, all_links', url))
            /\ payload' = Finished(filtered_links')
            /\ pc' = "done"
       ELSE /\ filtered_links' = FilterLinks(tool, all_links', url)
            /\ payload' = payload
            /\ pc' = "enriching"
    /\ UNCHANGED <<fnvars, envvars, srvvars, overtaken, tool>>

\* Task k enters `async with sem` and sends its request.  Tasks run in creation
\* order and the semaphore wakes its waiters first come, first served.
TaskAcquire(k) ==
    /\ pc = "enriching"
    /\ tasks[k].state = "pending"
    /\ \A j \in 1..(k - 1) : tasks[j].state # "pending"
    /\ SemFree(sem)
    /\ sem' = sem - 1
    /\ tasks' = [tasks EXCEPT ![k].state = "fetching"]
    /\ UNCHANGED <<fnvars, envvars, srvvars, overtaken,
                   tool, pc, listvars, filtered_links, eligible_indices,
                   payload>>

\* The fetch of task k ends, in any of the three ways; the task leaves the
\* `async with` block and returns (idx, headings)
TaskFetchEnds(k) ==
    /\ pc = "enriching"
    /\ tasks[k].state = "fetching"
    /\ \E end \in FetchEnds :
          tasks' = [tasks EXCEPT ![k].state = "done",
                                 ![k].ended = end,
                                 ![k].result = <<tasks[k].idx,
                                                 fetch_headings_for_url(tasks[k].target_url, end)>>]
    /\ sem' = sem + 1
    /\ overtaken' = (overtaken \/ \E j \in 1..(k - 1) : tasks[j].state = "fetching")
    /\ UNCHANGED <<fnvars, envvars, srvvars, tool, pc, listvars, filtered_links, eligible_indices,
                   payload>>

\* asyncio.gather returns: the results are stored and the tool returns
Gathered ==
    /\ pc = "enriching"
    /\ \A k \in 1..Len(tasks) : tasks[k].state = "done"
    /\ filtered_links' = SetDefaults(StoreResults(filtered_links, tasks, 1))
    /\ payload' = SuccessPayload(tool, url, all_links, filtered_links', header_links,
                                 footer_links, nav_links)
    /\ pc' = "done"
    /\ UNCHANGED <<fnvars, envvars, srvvars, overtaken,
                   tool, listvars, eligible_indices, sem, tasks>>

\* url.lower().endswith('.pdf')
IsPdf(u) == EndsWith(Lower(u), ".pdf")

\* extract_site_links_with_playwright(url) is called
CallPlaywright ==
    /\ pc = "idle"
    /\ tool' = "playwright"
    /\ IF ~PLAYWRIGHT_AVAILABLE
       THEN /\ payload' = ErrorPayload("Playwright is not available. Please install it with: "
                                         \o "pip install playwright && playwright install",
                                         url)
            /\ pc' = "done"
       ELSE IF IsPdf(url)
       THEN /\ payload' = ErrorPayload("PDF files are not supported", url)
            /\ pc' = "done"
       ELSE /\ payload' = payload
            /\ pc' = "pw_loading"
    /\ UNCHANGED <<fnvars, envvars, srvvars, overtaken,
                   listvars, filtered_links, eligible_indices, sem, tasks>>

\* The browser fails (launch, navigation, timeout), on the first load or in the
\* JavaScript fallback
PwFailed ==
    /\ pc \in {"pw_loading", "pw_fallback"}
    /\ payload' = ErrorPayload("TimeoutError", url)
    /\ pc' = "done"
    /\ UNCHANGED <<fnvars, envvars, srvvars, overtaken,
                   tool, listvars, filtered_links, eligible_indices, sem,
                   tasks>>

\* The rendered page is read: the links are extracted and merged; with no link
\* at all the JavaScript fallback starts, otherwise the tool filters and returns
PwLoaded ==
    /\ pc = "pw_loading"
    /\ header_links' = ExtractLinks(tool, RegionAnchors(page, "header"), url)
    /\ footer_links' = ExtractLinks(tool, RegionAnchors(page, "footer"), url)
    /\ nav_links' = NavLinks(tool, page, url)
    /\ all_links' = MergeLinks(header_links', footer_links', nav_links')
    /\ IF Len(all_links') = 0
       THEN /\ filtered_links' = filtered_links
            /\ payload' = payload
            /\ pc' = "pw_fallback"
       ELSE /\ filtered_links' = SetEmpty(FilterLinks(tool, all_links', url))
            /\ payload' = SuccessPayload(tool, url, all_links', filtered_links',
                                         header_links', footer_links', nav_links')
            /\ pc' = "done"
    /\ UNCHANGED <<fnvars, envvars, srvvars, overtaken, tool, eligible_indices, sem, tasks>>

\* The JavaScript fallback returns its links, which replace the merged list
PwFallbackDone ==
    /\ pc = "pw_fallback"
    /\ all_links' = js_links(page, url)
    /\ filtered_links' = SetEmpty(FilterLinks(tool, all_links', url))
    /\ payload' = SuccessPayload(tool, url, all_links', filtered_links', header_links,
                                 footer_links, nav_links)
    /\ pc' = "done"
    /\ UNCHANGED <<fnvars, envvars, srvvars, overtaken, tool, header_links, footer_links, nav_links,
                   eligible_indices, sem, tasks>>

Next ==
    \/ CallAiohttp
    \/ PageFailed
    \/ PageFetched
    \/ \E k \in 1..Len(tasks) : TaskAcquire(k)
    \/ \E k \in 1..Len(tasks) : TaskFetchEnds(k)
    \/ Gathered
    \/ CallPlaywright
    \/ PwFailed
    \/ PwLoaded
    \/ PwFallbackDone

(***************************************************************************)
(* Sites.  Spec: every page made of at most MaxAnchors anchors of a master *)
(* page, in the master's order.                                            *)
(***************************************************************************)
MaxAnchors == 3

MasterPage ==
    <<Anchor("Post", "/blog/2023/post-1", "body", 1),
      Anchor("About", "/blog/about", "body", 1),
      Anchor("Home", "/", "header", 0),
      Anchor("About", "/blog/about", "header", 2),
      Anchor("", "/logo", "header", 0),
      Anchor("Docs", "https://sub.example.com/docs", "body", 3),
      Anchor("Body", "/body", "body", 0),
      Anchor("Body again", "https://example.com/body", "body", 0),
      Anchor("About us", "https://example.com/blog/about", "footer", 0),
      Anchor("Mail", "mailto:a@b.com", "footer", 0),
      Anchor("Call", "tel:+81-3-0000", "footer", 0),
      Anchor("Top", "#top", "footer", 0),
      Anchor("Partner", "https://example.com:pw@evil.test/a", "footer", 0),
      Anchor("Other", "https://notexample.com/", "footer", 0)>>

\* The k-th smallest element of a set of numbers
Nth(S, k) == CHOOSE i \in S : Cardinality({j \in S : j < i}) = k - 1

\* The anchors of master at the positions S, in order
Selection(master, S) == [k \in 1..Cardinality(S) |-> master[Nth(S, k)]]

Pages ==
    {Selection(MasterPage, S) :
        S \in {T \in SUBSET (1..Len(MasterPage)) : Cardinality(T) <= MaxAnchors}}

CallUrls == {"https://example.com/blog", "https://example.com/guide.PDF"}

Init ==
    /\ ServerIdle("")
    /\ NoHelperCall
    /\ PLAYWRIGHT_AVAILABLE \in BOOLEAN
    /\ page \in Pages
    /\ url \in CallUrls
    /\ Idle

Spec == Init /\ [][Next]_vars

(***************************************************************************)
(* SpecThreshold: blog pages whose header lists n posts of one permalink   *)
(* structure, with or without a footer link to the first post (the same    *)
(* URL as the first header post), a footer link of another pattern and a   *)
(* nav link to the archive (the posts' pattern).  The posts live on the    *)
(* blog's own host, the page that lists them is called on the main site.   *)
(***************************************************************************)
MaxPosts == 12

PostNames == <<"post-1", "post-2", "post-3", "post-4", "post-5", "post-6", "post-7",
               "post-8", "post-9", "post-10", "post-11", "post-12", "post-13", "post-14">>

PostAnchors(n) ==
    [k \in 1..n |-> Anchor(PostNames[k], "https://blog.example.org/blog/2023/" \o PostNames[k],
                           "header", 0)]

BlogPage(n, first, about, archive) ==
    PostAnchors(n)
    \o <<Anchor("Body", "/body", "body", 0)>>
    \o (IF first THEN <<Anchor("First post", "https://blog.example.org/blog/2023/post-1",
                               "footer", 0)>> ELSE <<>>)
    \o (IF about THEN <<Anchor("About", "/blog/about", "footer", 0)>> ELSE <<>>)
    \o (IF archive THEN <<Anchor("Archive", "/blog/2023/archive", "body", 1)>> ELSE <<>>)

BlogPages == {BlogPage(n, first, about, archive) : n \in 0..MaxPosts, first \in BOOLEAN,
                                                   about \in BOOLEAN, archive \in BOOLEAN}

InitThreshold ==
    /\ ServerIdle("")
    /\ NoHelperCall
    /\ PLAYWRIGHT_AVAILABLE = TRUE
    /\ page \in BlogPages
    /\ url = "https://example.com/blog"
    /\ Idle

SpecThreshold == InitThreshold /\ [][Next]_vars

(***************************************************************************)
(* SpecFilter: pages with a Home link in the header, n posts of one        *)
(* permalink structure in the footer and an About link in a nav, so that   *)
(* the filter removes links from between links it keeps.                   *)
(***************************************************************************)
FooterPosts(n) ==
    [k \in 1..n |-> Anchor(PostNames[k], "https://blog.example.org/blog/2023/" \o PostNames[k],
                           "footer", 0)]

FilterPage(n, home, about) ==
    (IF home THEN <<Anchor("Home", "/", "header", 0)>> ELSE <<>>)
    \o <<Anchor("Body", "/body", "body", 0)>>
    \o FooterPosts(n)
    \o (IF about THEN <<Anchor("About", "/blog/about", "body", 1)>> ELSE <<>>)

FilterPages == {FilterPage(n, home, about) : n \in 0..MaxPosts, home \in BOOLEAN,
                                             about \in BOOLEAN}

InitFilter ==
    /\ ServerIdle("")
    /\ NoHelperCall
    /\ PLAYWRIGHT_AVAILABLE = TRUE
    /\ page \in FilterPages
    /\ url = "https://example.com/blog"
    /\ Idle

SpecFilter == InitFilter /\ [][Next]_vars

(***************************************************************************)
(* SpecEnrich: pages whose header lists n same-domain links, each of its   *)
(* own pattern, after an optional link to another domain.                  *)
(***************************************************************************)
MaxTasks == 6

PageNames == <<"p1", "p2", "p3", "p4", "p5", "p6", "p7", "p8">>

SiteAnchors(n) == [k \in 1..n |-> Anchor(PageNames[k], "/" \o PageNames[k], "header", 0)]

SitePage(n, other) ==
    (IF other THEN <<Anchor("Other", "https://notexample.com/", "header", 0)>> ELSE <<>>)
    \o SiteAnchors(n)
    \o <<Anchor("Body", "/body", "body", 0)>>

SitePages == {SitePage(n, other) : n \in 0..MaxTasks, other \in BOOLEAN}

InitEnrich ==
    /\ ServerIdle("")
    /\ NoHelperCall
    /\ PLAYWRIGHT_AVAILABLE = TRUE
    /\ page \in SitePages
    /\ url = "https://example.com/blog"
    /\ Idle

SpecEnrich == InitEnrich /\ [][Next]_vars

(***************************************************************************)
(* SpecBrowsers: up to MaxCalls concurrent invocations of the two browser  *)
(* tools.                                                                  *)
(***************************************************************************)
MaxCalls == 7

beside_browsers == <<fnvars, envvars, toolvars, reqvars, apivars, batchvars>>

\* A browser tool is invoked; without Playwright, or with a PDF URL, it is
\* turned down before the semaphore
BrowserCall(t) ==
    /\ Invocations(callers) < MaxCalls
    /\ \E pdf \in BOOLEAN :
          /\ callers' = [callers EXCEPT
                            ![Place(t, IF pdf \/ ~PLAYWRIGHT_AVAILABLE
                                       THEN "returned" ELSE "waiting")] = @ + 1]
          /\ exits' = [exits EXCEPT
                          !.rejected = @ \/ pdf \/ ~PLAYWRIGHT_AVAILABLE]
    /\ UNCHANGED <<beside_browsers, browser_semaphore>>

\* async with browser_semaphore: a waiting invocation gets a permit
BrowserAcquire(t) ==
    /\ callers[Place(t, "waiting")] > 0
    /\ BrowserPermit(browser_semaphore)
    /\ browser_semaphore' = browser_semaphore - 1
    /\ callers' = Move(callers, Place(t, "waiting"), Place(t, "acquired"))
    /\ UNCHANGED <<beside_browsers, exits>>

\* p.chromium.launch returns
BrowserLaunch(t) ==
    /\ callers[Place(t, "acquired")] > 0
    /\ callers' = Move(callers, Place(t, "acquired"), Place(t, "browser"))
    /\ UNCHANGED <<beside_browsers, browser_semaphore, exits>>

\* The places of a tool at which an exception can be raised inside its try
RaisingPlaces(t) ==
    IF t = "fetch_page_content_with_playwright" THEN {"acquired", "browser"}
    ELSE {"acquired", "browser", "parsing", "relaunch", "browser2"}

\* An exception (launch failure, navigation timeout, ...) leaves the
\* async_playwright block, if inside one, and is caught; finally follows
BrowserRaises(t) ==
    /\ \E where \in RaisingPlaces(t) :
          /\ callers[Place(t, where)] > 0
          /\ callers' = Move(callers, Place(t, where), Place(t, "closing"))
          /\ exits' = [exits EXCEPT
                          !.fallback_failed = @ \/ where \in {"relaunch", "browser2"}]
    /\ UNCHANGED <<beside_browsers, browser_semaphore>>

\* fetch_page_content_with_playwright returns its text from inside the
\* async_playwright block
ContentReturned ==
    /\ callers[Place("fetch_page_content_with_playwright", "browser")] > 0
    /\ callers' = Move(callers, Place("fetch_page_content_with_playwright", "browser"),
                       Place("fetch_page_content_with_playwright", "closing"))
    /\ UNCHANGED <<beside_browsers, browser_semaphore, exits>>

\* extract_site_links_with_playwright has the HTML and leaves the
\* async_playwright block
HtmlRead ==
    /\ callers[Place("extract_site_links_with_playwright", "browser")] > 0
    /\ callers' = Move(callers, Place("extract_site_links_with_playwright", "browser"),
                       Place("extract_site_links_with_playwright", "parsing"))
    /\ UNCHANGED <<beside_browsers, browser_semaphore, exits>>

\* The links are merged: with none the fallback starts, else the tool returns
LinksMerged ==
    /\ callers[Place("extract_site_links_with_playwright", "parsing")] > 0
    /\ \E found \in BOOLEAN :
          callers' = Move(callers, Place("extract_site_links_with_playwright", "parsing"),
                          Place("extract_site_links_with_playwright",
                                IF found THEN "closing" ELSE "relaunch"))
    /\ UNCHANGED <<beside_browsers, browser_semaphore, exits>>

\* p2.chromium.launch returns
FallbackLaunch ==
    /\ callers[Place("extract_site_links_with_playwright", "relaunch")] > 0
    /\ callers' = Move(callers, Place("extract_site_links_with_playwright", "relaunch"),
                       Place("extract_site_links_with_playwright", "browser2"))
    /\ UNCHANGED <<beside_browsers, browser_semaphore, exits>>

\* The fallback has its links, closes browser2 and leaves its block; the
\* tool returns
FallbackRead ==
    /\ callers[Place("extract_site_links_with_playwright", "browser2")] > 0
    /\ callers' = Move(callers, Place("extract_site_links_with_playwright", "browser2"),
                       Place("extract_site_links_with_playwright", "closing"))
    /\ UNCHANGED <<beside_browsers, browser_semaphore, exits>>

\* The finally block ends and `async with browser_semaphore` is left
BrowserRelease(t) ==
    /\ callers[Place(t, "closing")] > 0
    /\ browser_semaphore' = SemaphoreRelease(browser_semaphore)
    /\ callers' = Move(callers, Place(t, "closing"), Place(t, "returned"))
    /\ UNCHANGED <<beside_browsers, exits>>

NextBrowsers ==
    \/ \E t \in BrowserTools : BrowserCall(t)
    \/ \E t \in BrowserTools : BrowserAcquire(t)
    \/ \E t \in BrowserTools : BrowserLaunch(t)
    \/ \E t \in BrowserTools : BrowserRaises(t)
    \/ ContentReturned
    \/ HtmlRead
    \/ LinksMerged
    \/ FallbackLaunch
    \/ FallbackRead
    \/ \E t \in BrowserTools : BrowserRelease(t)

InitBrowsers ==
    /\ ServerIdle("browsers")
    /\ NoHelperCall
    /\ PLAYWRIGHT_AVAILABLE \in BOOLEAN
    /\ page = <<>>
    /\ url = ""
    /\ Idle
    /\ browser_semaphore = MAX_BROWSERS
    /\ callers = [pl \in Places |-> 0]
    /\ exits = NoExits

SpecBrowsers == InitBrowsers /\ [][NextBrowsers]_vars

(***************************************************************************)
(* SpecRequests: two concurrent invocations of extract_site_links.  Each   *)
(* has its own locals (a record); the event loop runs one invocation at a  *)
(* time between two awaits.                                                *)
(***************************************************************************)
MaxLinks == 2

beside_requests == <<fnvars, envvars, toolvars, browservars, apivars, batchvars>>

\* The URLs the other invocations have merged so far
MergedByOthers(reqs, i) ==
    UNION {{reqs[j].all_links[k].url : k \in 1..Len(reqs[j].all_links)} :
              j \in (1..Len(reqs)) \ {i}}

\* A seen-URL set that outlives the invocation
SharedSeenUrls(others) == others

\* seen_urls = set(): a new set for each invocation
NewSeenUrls(others) == {}

\* The locals of an invocation that has not sent its page request
NewRequest(pg, u) ==
    [page |-> pg, url |-> u, pc |-> "idle", header_links |-> <<>>, footer_links |-> <<>>,
     nav_links |-> <<>>, all_links |-> <<>>, filtered_links |-> <<>>, sem |-> 0,
     tasks |-> <<>>, payload |-> NoPayload]

\* The return of an invocation whose list `filtered` is complete
ReqReturn(r, filtered) ==
    [r EXCEPT !.pc = "done",
              !.filtered_links = filtered,
              !.payload = SuccessPayload("aiohttp", r.url, r.all_links, filtered,
                                         r.header_links, r.footer_links, r.nav_links)]

\* The invocation with its heading fetches created, or returned when none is
ReqWithTasks(r, made) ==
    IF Len(made) = 0 THEN ReqReturn(r, SetDefaults(r.filtered_links))
    ELSE [r EXCEPT !.pc = "enriching", !.sem = concurrency, !.tasks = made]

ReqWithFiltered(r, filtered) ==
    ReqWithTasks([r EXCEPT !.filtered_links = filtered],
                 CreateTasks(filtered, EligibleIndices(filtered, r.url)))

ReqWithMerged(r, all) ==
    ReqWithFiltered([r EXCEPT !.all_links = all], FilterLinks("aiohttp", all, r.url))

ReqWithLists(r, header, footer, nav, seen_urls) ==
    ReqWithMerged([r EXCEPT !.header_links = header, !.footer_links = footer,
                            !.nav_links = nav],
                  MergeLoop(header \o footer \o nav, seen_urls, <<>>))

\* The page arrives with status 200: everything up to `await asyncio.gather`
ReqAfterPage(r, others) ==
    ReqWithLists(r, ExtractLinks("aiohttp", RegionAnchors(r.page, "header"), r.url),
                 ExtractLinks("aiohttp", RegionAnchors(r.page, "footer"), r.url),
                 NavLinks("aiohttp", r.page, r.url), NewSeenUrls(others))

ReqCall(i) ==
    /\ requests[i].pc = "idle"
    /\ requests' = [requests EXCEPT ![i].pc = "fetching"]
    /\ UNCHANGED beside_requests

ReqPageFailed(i) ==
    /\ requests[i].pc = "fetching"
    /\ requests' = [requests EXCEPT
                       ![i].pc = "done",
                       ![i].payload = ErrorPayload("Failed to fetch page: 404",
                                                   requests[i].url)]
    /\ UNCHANGED beside_requests

ReqPageFetched(i) ==
    /\ requests[i].pc = "fetching"
    /\ requests' = [requests EXCEPT
                       ![i] = ReqAfterPage(requests[i], MergedByOthers(requests, i))]
    /\ UNCHANGED beside_requests

ReqTaskAcquire(i, k) ==
    /\ requests[i].pc = "enriching"
    /\ requests[i].tasks[k].state = "pending"
    /\ \A j \in 1..(k - 1) : requests[i].tasks[j].state # "pending"
    /\ SemFree(requests[i].sem)
    /\ requests' = [requests EXCEPT ![i].sem = @ - 1,
                                    ![i].tasks[k].state = "fetching"]
    /\ UNCHANGED beside_requests

ReqTaskFetchEnds(i, k) ==
    /\ requests[i].pc = "enriching"
    /\ requests[i].tasks[k].state = "fetching"
    /\ \E end \in FetchEnds :
          requests' = [requests EXCEPT
              ![i].sem = @ + 1,
              ![i].tasks[k].state = "done",
              ![i].tasks[k].ended = end,
              ![i].tasks[k].result =
                  <<requests[i].tasks[k].idx,
                    fetch_headings_for_url(requests[i].tasks[k].target_url, end)>>]
    /\ UNCHANGED beside_requests

ReqGathered(i) ==
    /\ requests[i].pc = "enriching"
    /\ \A k \in 1..Len(requests[i].tasks) : requests[i].tasks[k].state = "done"
    /\ requests' = [requests EXCEPT
           ![i] = ReqReturn(requests[i],
                            SetDefaults(StoreResults(requests[i].filtered_links,
                                                     requests[i].tasks, 1)))]
    /\ UNCHANGED beside_requests

NextRequests ==
    \/ \E i \in 1..Len(requests) : ReqCall(i)
    \/ \E i \in 1..Len(requests) : ReqPageFailed(i)
    \/ \E i \in 1..Len(requests) : ReqPageFetched(i)
    \/ \E i \in 1..Len(requests) : \E k \in 1..Len(requests[i].tasks) : ReqTaskAcquire(i, k)
    \/ \E i \in 1..Len(requests) : \E k \in 1..Len(requests[i].tasks) : ReqTaskFetchEnds(i, k)
    \/ \E i \in 1..Len(requests) : ReqGathered(i)

\* The pages of the two invocations: the first links of one site, after an
\* optional link to another domain
RequestPages == {SitePage(n, other) : n \in 0..MaxLinks, other \in BOOLEAN}

InitRequests ==
    /\ ServerIdle("requests")
    /\ NoHelperCall
    /\ PLAYWRIGHT_AVAILABLE = TRUE
    /\ page = <<>>
    /\ url = ""
    /\ Idle
    /\ \E pg1, pg2 \in RequestPages :
          requests = <<NewRequest(pg1, "https://example.com/blog"),
                       NewRequest(pg2, "https://example.com/blog")>>

SpecRequests == InitRequests /\ [][NextRequests]_vars

(***************************************************************************)
(* The tools that query a WordPress REST API: rakuraku_school_list,        *)
(* rakuraku_media_posts, search_cloud_gym_introduce, search_cloud_gym_posts *)
(* and the search request of generate_gym_introduction_email               *)
(***************************************************************************)
MaxPerPage == 102

MaxPage == 3

beside_wordpress ==
    <<fnvars, envvars, toolvars, browservars, reqvars, gsvars, gymvars, updvars,
      batchvars>>

RakurakuTools == {"rakuraku_school_list", "rakuraku_media_posts"}

CloudGymTools == {"search_cloud_gym_introduce", "search_cloud_gym_posts"}

WpTools == RakurakuTools \cup CloudGymTools \cup {"generate_gym_introduction_email"}

\* The ways the request to the API ends: a 200 answer with a list of post
\* objects, with an empty list, with a body that is not JSON, with a JSON object,
\* with a list whose items are not objects; a status >= 400 with a JSON or a
\* non-JSON body; no answer because the connection failed or timed out
WpOutcomes ==
    {"posts", "no_posts", "not_json", "not_a_list", "malformed_posts", "http_error",
     "http_error_not_json", "connection_error", "timeout"}

\* per_page with its upper limit only
ClampAbove(n) == Min({n, 100})

\* per_page = max(1, min(per_page, 100))
ClampPerPage(n) == Max({1, Min({n, 100})})

\* page = max(1, page); generate_gym_introduction_email has no page argument and
\* sends "page": 1
PageSent(t, n) == IF t = "generate_gym_introduction_email" THEN 1 ELSE Max({1, n})

\* What _rakuraku_wp_get gives: the exception it raises or the payload it returns.
\* session.get raises aiohttp's or asyncio's exception; a body that is not JSON
\* is kept as text; a status >= 400 raises RuntimeError
_rakuraku_wp_get(outcome) ==
    CASE outcome = "connection_error" -> [raised |-> "ClientConnectorError", payload |-> ""]
      [] outcome = "timeout" -> [raised |-> "TimeoutError", payload |-> ""]
      [] outcome \in {"http_error", "http_error_not_json"} ->
             [raised |-> "RuntimeError", payload |-> ""]
      [] outcome = "not_json" -> [raised |-> "", payload |-> "str"]
      [] outcome = "not_a_list" -> [raised |-> "", payload |-> "dict"]
      [] outcome = "no_posts" -> [raised |-> "", payload |-> "empty_list"]
      [] outcome = "malformed_posts" -> [raised |-> "", payload |-> "list_of_non_dict"]
      [] OTHER -> [raised |-> "", payload |-> "list_of_dict"]

\* rakuraku_school_list and rakuraku_media_posts after the request: only
\* RuntimeError is caught; _rakuraku_format_summary calls post.get on every item
RakurakuResult(got) ==
    CASE got.raised = "RuntimeError" -> [kind |-> "text", error |-> "WordPress API"]
      [] got.raised # "" -> [kind |-> "raised", error |-> got.raised]
      [] got.payload \in {"str", "dict"} -> [kind |-> "text", error |-> "unexpected"]
      [] got.payload = "empty_list" -> [kind |-> "text", error |-> ""]
      [] got.payload = "list_of_non_dict" ->
             [kind |-> "raised", error |-> "AttributeError"]
      [] OTHER -> [kind |-> "text", error |-> ""]

\* The Cloud GYM tools after the request: the whole exchange is inside try, with
\* except aiohttp.ClientError and except Exception
CloudGymResult(outcome) ==
    CASE outcome = "connection_error" -> [kind |-> "json", error |-> "network_error"]
      [] outcome \in {"timeout", "not_json", "not_a_list", "malformed_posts"} ->
             [kind |-> "json", error |-> "unexpected_error"]
      [] outcome \in {"http_error", "http_error_not_json"} ->
             [kind |-> "json", error |-> "api_error"]
      [] OTHER -> [kind |-> "json", error |-> ""]

\* generate_gym_introduction_email after its search request
EmailSearchResult(outcome) ==
    CASE outcome \in {"http_error", "http_error_not_json"} ->
             [kind |-> "json", error |-> "Failed to fetch posts"]
      [] outcome \in {"connection_error", "timeout", "not_json", "not_a_list",
                      "malformed_posts"} -> [kind |-> "json", error |-> "exception"]
      [] outcome = "no_posts" -> [kind |-> "json", error |-> "no_valid_posts"]
      [] OTHER -> [kind |-> "json", error |-> ""]

WpToolResult(t, outcome) ==
    IF t \in RakurakuTools THEN RakurakuResult(_rakuraku_wp_get(outcome))
    ELSE IF t \in CloudGymTools THEN CloudGymResult(outcome)
    ELSE EmailSearchResult(outcome)

\* A tool is invoked and runs up to its request; a rakuraku tool without
\* credentials and search_cloud_gym_introduce without keyword return at once
WpCall(t) ==
    /\ wp_call.tool = "none"
    /\ \E pp \in (0 - 1)..MaxPerPage, pg \in (0 - 1)..MaxPage, ready \in BOOLEAN :
          /\ wp_call' = [tool |-> t, per_page |-> pp,
                         page |-> IF t = "generate_gym_introduction_email" THEN 1 ELSE pg]
          /\ IF ready \/ t \in {"search_cloud_gym_posts", "generate_gym_introduction_email"}
                THEN /\ wp_params' = [sent |-> TRUE, per_page |-> ClampPerPage(pp),
                                      page |-> PageSent(t, pg)]
                     /\ UNCHANGED wp_result
                ELSE /\ wp_result' =
                           IF t \in RakurakuTools
                              THEN [kind |-> "text", error |-> "credentials"]
                              ELSE [kind |-> "json", error |-> "keyword_required"]
                     /\ UNCHANGED wp_params
    /\ UNCHANGED beside_wordpress

\* The request ends and the tool returns or raises
WpRequestEnds ==
    /\ wp_params.sent
    /\ wp_result.kind = "none"
    /\ \E outcome \in WpOutcomes : wp_result' = WpToolResult(wp_call.tool, outcome)
    /\ UNCHANGED <<beside_wordpress, wp_call, wp_params>>

NextWordPress ==
    \/ \E t \in WpTools : WpCall(t)
    \/ WpRequestEnds

InitWordPress ==
    /\ ServerIdle("wordpress")
    /\ NoHelperCall
    /\ PLAYWRIGHT_AVAILABLE = TRUE
    /\ page = <<>>
    /\ url = ""
    /\ Idle
    /\ NoWpCall

SpecWordPress == InitWordPress /\ [][NextWordPress]_vars

(***************************************************************************)
(* read_google_sheet                                                       *)
(***************************************************************************)
MaxSheets == 2

beside_sheets ==
    <<fnvars, envvars, toolvars, browservars, reqvars, wpvars, gymvars, updvars,
      batchvars>>

\* range_name and sheet_name arguments
RangeNames == {"", "A1:C10", "Sheet1!A1:Z100", "!"}

SheetNameArgs == {"", "Sheet1", "Data"}

\* The titles of the spreadsheet's sheets, in the metadata's order
SheetTitles == {SubSeq(<<"Data", "Sheet1", "Archive">>, 1, n) : n \in 0..MaxSheets}

\* The ways a request to the Sheets API ends other than with an answer: an
\* HttpError whose content is the API's JSON error object, an HttpError whose
\* content is not JSON, an HttpError whose JSON content has no error object
\* (a string under "error"), another exception (connection lost, timeout)
ApiErrors == {"http_error_json", "http_error_not_json", "http_error_no_object", "exception"}

GsPayload(keyset, ok, err) ==
    [kind |-> "json", keys |-> keyset, success |-> ok, error |-> err, range |-> ""]

\* An exception leaves the tool
GsRaised(exc) ==
    [kind |-> "raised", keys |-> {}, success |-> FALSE, error |-> exc, range |-> ""]

\* The except clauses of read_google_sheet: the HttpError handler parses
\* e.content with json.loads and reads error_details.get('error', {}).get(...)
\* before it builds its payload, outside any try
GsHandled(failure) ==
    CASE failure = "http_error_json" ->
             GsPayload({"success", "error", "status_code", "message", "details"},
                       FALSE, "api_error")
      [] failure = "http_error_not_json" -> GsRaised("JSONDecodeError")
      [] failure = "http_error_no_object" -> GsRaised("AttributeError")
      [] failure = "RuntimeError" ->
             GsPayload({"success", "error", "message"}, FALSE, "authentication_error")
      [] OTHER -> GsPayload({"success", "error", "message"}, FALSE, "unexpected_error")

\* The range with the sheet name put in front whenever a sheet name is given
FullRangePrefixed(range_name, sheet_name) ==
    IF range_name # ""
       THEN IF sheet_name # "" THEN <<sheet_name \o "!" \o range_name>> ELSE <<range_name>>
       ELSE IF sheet_name # "" THEN <<sheet_name>> ELSE <<>>

\* full_range, as a sequence: <<>> for None
FullRange(range_name, sheet_name) ==
    IF range_name # ""
       THEN IF Contains(range_name, "!") THEN <<range_name>>
            ELSE IF sheet_name # "" THEN <<sheet_name \o "!" \o range_name>>
            ELSE <<range_name>>
       ELSE IF sheet_name # "" THEN <<sheet_name>> ELSE <<>>

\* "range": full_range or sheet_names[0] if sheet_names else "unknown"
ReportedRange(full_range, sheet_names) ==
    IF sheet_names # <<>>
       THEN IF full_range # <<>> THEN full_range[1] ELSE sheet_names[1]
       ELSE "unknown"

\* The tool is invoked: the library check, _get_google_sheets_service and the
\* construction of full_range
GsCall ==
    /\ gs_call.at = "none"
    /\ \E rn \in RangeNames, sn \in SheetNameArgs, available \in BOOLEAN,
          creds \in {"found", "missing", "rejected"} :
          /\ gs_call' = [gs_call EXCEPT
                            !.range_name = rn, !.sheet_name = sn,
                            !.full_range = IF available /\ creds = "found"
                                              THEN FullRange(rn, sn) ELSE <<>>,
                            !.at = IF available /\ creds = "found"
                                      THEN "metadata" ELSE "returned"]
          /\ gs_result' =
                IF ~available
                   THEN GsPayload({"success", "error", "message"}, FALSE,
                                  "google_sheets_unavailable")
                ELSE IF creds # "found" THEN GsHandled("RuntimeError")
                ELSE gs_result
    /\ UNCHANGED <<beside_sheets, gs_read>>

\* spreadsheets().get(...).execute() fails
GsMetadataFails ==
    /\ gs_call.at = "metadata"
    /\ \E failure \in ApiErrors : gs_result' = GsHandled(failure)
    /\ gs_call' = [gs_call EXCEPT !.at = "returned"]
    /\ UNCHANGED <<beside_sheets, gs_read>>

\* spreadsheets().get(...).execute() answers; the tool requests the values of
\* full_range, or of the first sheet, or returns no_sheets
GsMetadata ==
    /\ gs_call.at = "metadata"
    /\ \E titles \in SheetTitles :
          IF gs_call.full_range # <<>> \/ titles # <<>>
             THEN /\ gs_read' = Append(gs_read, IF gs_call.full_range # <<>>
                                                   THEN gs_call.full_range[1]
                                                   ELSE titles[1])
                  /\ gs_call' = [gs_call EXCEPT !.listed = TRUE, !.sheet_names = titles,
                                                  !.at = "values"]
                  /\ UNCHANGED gs_result
             ELSE /\ gs_result' = GsPayload({"success", "error", "message"}, FALSE,
                                            "no_sheets")
                  /\ gs_call' = [gs_call EXCEPT !.listed = TRUE, !.sheet_names = titles,
                                                  !.at = "returned"]
                  /\ UNCHANGED gs_read
    /\ UNCHANGED beside_sheets

\* spreadsheets().values().get(...).execute() fails
GsValuesFail ==
    /\ gs_call.at = "values"
    /\ \E failure \in ApiErrors : gs_result' = GsHandled(failure)
    /\ gs_call' = [gs_call EXCEPT !.at = "returned"]
    /\ UNCHANGED <<beside_sheets, gs_read>>

\* spreadsheets().values().get(...).execute() answers, with or without values
GsValues ==
    /\ gs_call.at = "values"
    /\ \E empty \in BOOLEAN :
          gs_result' =
             [GsPayload(IF empty
                           THEN {"success", "spreadsheet_id", "range", "row_count",
                                 "data", "message"}
                           ELSE {"success", "spreadsheet_id", "range", "sheet_names",
                                 "row_count", "header_count", "headers", "data",
                                 "raw_values"},
                        TRUE, "")
              EXCEPT !.range = ReportedRange(gs_call.full_range, gs_call.sheet_names)]
    /\ gs_call' = [gs_call EXCEPT !.at = "returned"]
    /\ UNCHANGED <<beside_sheets, gs_read>>

NextSheets ==
    \/ GsCall
    \/ GsMetadataFails
    \/ GsMetadata
    \/ GsValuesFail
    \/ GsValues

InitSheets ==
    /\ ServerIdle("sheets")
    /\ NoHelperCall
    /\ PLAYWRIGHT_AVAILABLE = TRUE
    /\ page = <<>>
    /\ url = ""
    /\ Idle
    /\ NoSheetCall

SpecSheets == InitSheets /\ [][NextSheets]_vars

(***************************************************************************)
(* extract_store_ids_from_post and the loop of                             *)
(* generate_gym_introduction_email over the posts of its search            *)
(***************************************************************************)
MaxResults == 3

MaxWanted == 2

beside_gym ==
    <<fnvars, envvars, toolvars, browservars, reqvars, wpvars, gsvars, updvars,
      batchvars>>

\* An element of a post page: its id, its classes, its data-store-id ("" when
\* the attribute is missing or empty)
Element(id, classes, data) == [id |-> id, class |-> classes, data |-> data]

\* The post pages of the site: what session.get gives for each post
GymPages ==
    <<[status |-> 200, elements |-> <<Element("store_12", <<>>, ""),
                                      Element("about", <<"box">>, ""),
                                      Element("store_3", <<>>, "")>>],
      [status |-> 200, elements |-> <<Element("intro", <<"gym", "shop-store_7b">>, "")>>],
      [status |-> 200, elements |-> <<Element("", <<>>, "45")>>],
      [status |-> 200, elements |-> <<Element("content", <<"store_list">>, "")>>],
      [status |-> 200, elements |-> <<Element("", <<"card">>, "shinjuku")>>],
      [status |-> 200, elements |-> <<Element("store_9\n", <<>>, ""),
                                      Element("", <<>>, "store_")>>],
      [status |-> 404, elements |-> <<>>],
      [status |-> 0, elements |-> <<>>]>>

\* The link of post n; status 0 above stands for a request that raises
PostLink(n) == "https://cloud-gym.com/personal-fitness/archives/" \o Ch("12345678", n)

PostLinks == {PostLink(n) : n \in 1..Len(GymPages)}

PageAt(link) == GymPages[CHOOSE n \in 1..Len(GymPages) : PostLink(n) = link]

IsDigitRun(s) == s # "" /\ \A i \in 1..Len(s) : Ch(s, i) \in Digits

\* re.compile(r'^store_\d+$') found in an id: $ also matches before a final newline
IdMatches(v) ==
    \/ StartsWith(v, "store_") /\ IsDigitRun(Drop(v, 6))
    \/ /\ EndsWith(v, "\n")
       /\ StartsWith(v, "store_")
       /\ IsDigitRun(Sub(v, 7, Len(v) - 1))

\* The positions where re.search(r'store_(\d+)', cls) can match
StoreStarts(cls) ==
    {i \in 1..Len(cls) : Sub(cls, i, i + 5) = "store_" /\ Ch(cls, i + 6) \in Digits}

\* "store_" and group(1) of the leftmost match: the longest run of digits
ClassStoreId(cls, from) ==
    "store_" \o Sub(cls, from,
                    Max({j \in from..Len(cls) : \A k \in from..j : Ch(cls, k) \in Digits}))

\* 1. the ids that match ^store_\d+$
IdsFromId(elements) ==
    {elements[k].id : k \in {j \in DOMAIN elements : IdMatches(elements[j].id)}}

\* 2. store_N for every class that holds store_N
IdsFromClass(elements) ==
    UNION {{ClassStoreId(elements[k].class[c], Min(StoreStarts(elements[k].class[c])) + 6) :
               c \in {d \in DOMAIN elements[k].class : StoreStarts(elements[k].class[d]) # {}}} :
           k \in DOMAIN elements}

\* 3. the data-store-id, with store_ put in front when it does not start with it
DataStoreId(v) == IF ~StartsWith(v, "store_") THEN "store_" \o v ELSE v

IdsFromData(elements) ==
    {DataStoreId(elements[k].data) : k \in {j \in DOMAIN elements : elements[j].data # ""}}

\* json.dumps of the result of extract_store_ids_from_post for what session.get
\* gave: a status other than 200 and an exception give success false and no ids
extract_store_ids_from_post(got) ==
    [NoGymResult EXCEPT
        !.kind = "json",
        !.keys = IF got.status = 200
                    THEN {"success", "url", "store_ids", "anchor_urls", "count"}
                    ELSE {"success", "error", "url", "store_ids", "anchor_urls"},
        !.success = got.status = 200,
        !.error = IF got.status = 200 THEN ""
                  ELSE IF got.status = 0 THEN "exception" ELSE "Failed to fetch page",
        !.store_ids = IF got.status = 200
                         THEN IdsFromId(got.elements) \cup IdsFromClass(got.elements)
                                 \cup IdsFromData(got.elements)
                         ELSE {}]

\* if processed_count > max_posts: break
LimitPassed(count, limit) == count > limit

\* if processed_count >= max_posts: break
LimitReached(count, limit) == count >= limit

\* extract_store_ids_from_post(url) is invoked and returns
ExtractCall ==
    /\ gym_call.tool = "none"
    /\ \E link \in PostLinks :
          /\ gym_call' = [gym_call EXCEPT !.tool = "extract_store_ids_from_post",
                                          !.at = "returned"]
          /\ fetched' = <<link>>
          /\ gym_result' = extract_store_ids_from_post(PageAt(link))
    /\ UNCHANGED <<beside_gym, raw_posts, valid_posts, processed_count>>

\* generate_gym_introduction_email is invoked and its search answers with a list
\* of posts; max_posts = max(1, max_posts)
EmailCall ==
    /\ gym_call.tool = "none"
    /\ \E wanted \in (0 - 1)..MaxWanted, n \in 0..MaxResults :
          \E posts \in [1..n -> PostLinks \cup {""}] :
             /\ gym_call' = [tool |-> "generate_gym_introduction_email",
                             asked |-> wanted, max_posts |-> Max({1, wanted}),
                             next |-> 1, at |-> "loop"]
             /\ raw_posts' = posts
    /\ UNCHANGED <<beside_gym, valid_posts, processed_count, fetched, gym_result>>

\* One turn of for post in raw_posts: a post without link is passed over; the
\* page of another is fetched and the post kept when it gave store ids
EmailPost(found) ==
    /\ gym_call' = [gym_call EXCEPT !.next = @ + 1]
    /\ IF raw_posts[gym_call.next] = ""
          THEN UNCHANGED <<valid_posts, processed_count, fetched>>
          ELSE /\ fetched' = Append(fetched, raw_posts[gym_call.next])
               /\ IF found.success /\ found.store_ids # {}
                     THEN /\ valid_posts' =
                                Append(valid_posts, [url |-> raw_posts[gym_call.next],
                                                     store_ids |-> found.store_ids])
                          /\ processed_count' = processed_count + 1
                     ELSE UNCHANGED <<valid_posts, processed_count>>
    /\ UNCHANGED <<beside_gym, raw_posts, gym_result>>

EmailNextPost ==
    /\ gym_call.at = "loop"
    /\ gym_call.next <= Len(raw_posts)
    /\ ~LimitReached(processed_count, gym_call.max_posts)
    /\ EmailPost(IF raw_posts[gym_call.next] = "" THEN NoGymResult
                 ELSE extract_store_ids_from_post(PageAt(raw_posts[gym_call.next])))

\* The loop is over: no_valid_posts, or the result with the email template
EmailReturn ==
    /\ gym_call.at = "loop"
    /\ gym_call.next > Len(raw_posts) \/ LimitReached(processed_count, gym_call.max_posts)
    /\ gym_call' = [gym_call EXCEPT !.at = "returned"]
    /\ gym_result' =
          IF valid_posts = <<>>
             THEN [NoGymResult EXCEPT
                      !.kind = "json", !.error = "no_valid_posts",
                      !.keys = {"success", "error", "message", "region", "searched_posts"}]
             ELSE [NoGymResult EXCEPT
                      !.kind = "json", !.success = TRUE, !.posts = valid_posts,
                      !.keys = {"success", "region", "searched_posts", "valid_posts",
                                "total_stores", "posts", "email_template", "anchor_urls"}]
    /\ UNCHANGED <<beside_gym, raw_posts, valid_posts, processed_count, fetched>>

NextGym ==
    \/ ExtractCall
    \/ EmailCall
    \/ EmailNextPost
    \/ EmailReturn

InitGym ==
    /\ ServerIdle("gym")
    /\ NoHelperCall
    /\ PLAYWRIGHT_AVAILABLE = TRUE
    /\ page = <<>>
    /\ url = ""
    /\ Idle
    /\ NoGymCall

SpecGym == InitGym /\ [][NextGym]_vars

(***************************************************************************)
(* The tools that write to the Rakuraku WordPress API:                     *)
(* rakuraku_update_school_post, rakuraku_update_media_post,                *)
(* rakuraku_update_school_fields and rakuraku_update_media_fields          *)
(***************************************************************************)
beside_updates ==
    <<fnvars, envvars, toolvars, browservars, reqvars, wpvars, gsvars, gymvars,
      batchvars>>

RAKURAKU_FIELD_CONTAINERS == {"custom_fields", "meta", "acf"}

RAKURAKU_ALLOWED_STATUSES == {"publish", "draft"}

UpdatePostTools == {"rakuraku_update_school_post", "rakuraku_update_media_post"}

UpdateFieldsTools == {"rakuraku_update_school_fields", "rakuraku_update_media_fields"}

\* fields_json arguments
FieldsJsonArgs ==
    {"", "  ", "{}", "[1]", "null", "{area: Tokyo", "{\"area\": \"Tokyo\"}"}

\* container arguments
ContainerArgs == {"", " ", "meta", " acf ", "custom_fields", "post_meta", "Meta"}

\* json.loads on the arguments above: the type of the value (or the exception)
\* and the items of an object
json_loads(raw) ==
    CASE raw = "{\"area\": \"Tokyo\"}" -> [type |-> "dict", items |-> {<<"area", "Tokyo">>}]
      [] raw = "{}" -> [type |-> "dict", items |-> {}]
      [] raw = "[1]" -> [type |-> "list", items |-> {}]
      [] raw = "null" -> [type |-> "NoneType", items |-> {}]
      [] OTHER -> [type |-> "JSONDecodeError", items |-> {}]

\* Text that is not JSON or not an object counts as no fields
ParsedLeniently(raw, data) ==
    [error |-> "", fields |-> IF data.type = "dict" THEN data.items ELSE {}]

\* _rakuraku_parse_fields_json: (None, None) for a blank string, an error for
\* text that is not JSON or not an object, the object otherwise
ParsedFields(raw, data) ==
    IF Strip(raw, " ") = "" THEN [error |-> "", fields |-> {}]
    ELSE IF data.type = "JSONDecodeError" THEN [error |-> "not_json", fields |-> {}]
    ELSE IF data.type # "dict" THEN [error |-> "not_object", fields |-> {}]
    ELSE [error |-> "", fields |-> data.items]

_rakuraku_parse_fields_json(raw) == ParsedFields(raw, json_loads(raw))

StatusOrDraft(value) == IF value \in RAKURAKU_ALLOWED_STATUSES THEN value ELSE "draft"

_rakuraku_normalize_single_status(status_arg) == StatusOrDraft(Lower(Strip(status_arg, " ")))

\* A request body: its top-level string items and its nested objects
Body(top, nested) == [top |-> top, nested |-> nested]

\* payload of the update-post tools: the non-empty arguments, the normalized
\* status, and the fields under "meta"
PostPayload(call, fields) ==
    Body({<<k, call[k]>> : k \in {j \in {"title", "content", "excerpt", "slug"} : call[j] # ""}}
            \cup (IF call.status # ""
                     THEN {<<"status", _rakuraku_normalize_single_status(call.status)>>}
                     ELSE {}),
         IF fields # {} THEN {<<"meta", fields>>} ELSE {})

\* Any container is taken
AnyContainer(container) == TRUE

\* container in RAKURAKU_FIELD_CONTAINERS
ContainerSupported(container) == container \in RAKURAKU_FIELD_CONTAINERS

\* container = (container or "custom_fields").strip()
ContainerOf(container_arg) ==
    Strip(IF container_arg = "" THEN "custom_fields" ELSE container_arg, " ")

UpdText(err) == [kind |-> "text", error |-> err]

\* What the tool gives once _rakuraku_wp_post ended: the post as text, the
\* message of a RuntimeError (status >= 400, answer that is no object), or the
\* exception of a failed connection, which is not caught
AfterPost(outcome) ==
    CASE outcome \in {"connection_error", "timeout"} -> [kind |-> "raised", error |-> outcome]
      [] outcome \in {"http_error", "not_an_object"} -> UpdText("update_failed")
      [] OTHER -> UpdText("")

\* rakuraku_update_school_post / rakuraku_update_media_post up to the request
UpdatePost(call, ready, parsed) ==
    IF ~ready THEN [result |-> UpdText("credentials"), sent |-> <<>>]
    ELSE IF parsed.error # "" THEN [result |-> UpdText(parsed.error), sent |-> <<>>]
    ELSE IF PostPayload(call, parsed.fields) = Body({}, {})
            THEN [result |-> UpdText("nothing_to_update"), sent |-> <<>>]
    ELSE [result |-> NoUpdateResult, sent |-> <<PostPayload(call, parsed.fields)>>]

\* _rakuraku_handle_update_tool up to the request
_rakuraku_handle_update_tool(call, ready, data, container) ==
    IF ~ready THEN [result |-> UpdText("credentials"), sent |-> <<>>]
    ELSE IF data.type = "JSONDecodeError" THEN [result |-> UpdText("not_json"), sent |-> <<>>]
    ELSE IF data.type # "dict" \/ data.items = {}
            THEN [result |-> UpdText("not_object"), sent |-> <<>>]
    ELSE IF call.wrap_payload
            THEN IF ~ContainerSupported(container)
                    THEN [result |-> UpdText("container"), sent |-> <<>>]
                    ELSE [result |-> NoUpdateResult,
                          sent |-> <<Body({}, {<<container, data.items>>})>>]
    ELSE [result |-> NoUpdateResult, sent |-> <<Body(data.items, {})>>]

\* The tool ran up to its return or to its write request
UpdRan(call, ran) ==
    /\ upd_call' = [call EXCEPT !.at = IF ran.sent = <<>> THEN "returned" ELSE "posting"]
    /\ upd_sent' = ran.sent
    /\ upd_result' = ran.result
    /\ UNCHANGED beside_updates

UpdPostCall(t) ==
    /\ upd_call.tool = "none"
    /\ \E title, content, excerpt, slug \in {"", "x"}, st \in {"", "Publish ", "bogus"},
          fj \in FieldsJsonArgs, ready \in BOOLEAN :
          UpdRan([upd_call EXCEPT !.tool = t, !.title = title, !.content = content,
                                  !.excerpt = excerpt, !.slug = slug, !.status = st,
                                  !.fields_json = fj],
                 UpdatePost([upd_call EXCEPT !.tool = t, !.title = title,
                                             !.content = content, !.excerpt = excerpt,
                                             !.slug = slug, !.status = st,
                                             !.fields_json = fj],
                            ready, _rakuraku_parse_fields_json(fj)))

UpdFieldsCall(t) ==
    /\ upd_call.tool = "none"
    /\ \E fj \in FieldsJsonArgs, c \in ContainerArgs, wrap, ready \in BOOLEAN :
          UpdRan([upd_call EXCEPT !.tool = t, !.fields_json = fj, !.container = c,
                                  !.wrap_payload = wrap],
                 _rakuraku_handle_update_tool(
                     [upd_call EXCEPT !.tool = t, !.fields_json = fj, !.container = c,
                                      !.wrap_payload = wrap],
                     ready, json_loads(fj), ContainerOf(c)))

\* _rakuraku_wp_post ends and the tool returns or raises
UpdPostEnds ==
    /\ upd_call.at = "posting"
    /\ \E outcome \in {"post", "http_error", "not_an_object", "connection_error",
                       "timeout"} : upd_result' = AfterPost(outcome)
    /\ upd_call' = [upd_call EXCEPT !.at = "returned"]
    /\ UNCHANGED <<beside_updates, upd_sent>>

NextUpdates ==
    \/ \E t \in UpdatePostTools : UpdPostCall(t)
    \/ \E t \in UpdateFieldsTools : UpdFieldsCall(t)
    \/ UpdPostEnds

InitUpdates ==
    /\ ServerIdle("updates")
    /\ NoHelperCall
    /\ PLAYWRIGHT_AVAILABLE = TRUE
    /\ page = <<>>
    /\ url = ""
    /\ Idle
    /\ NoUpdateCall

SpecUpdates == InitUpdates /\ [][NextUpdates]_vars

(***************************************************************************)
(* detect_repeated_patterns and the filter on a batch of merged links, one *)
(* of which may hold a URL that urlparse refuses                           *)
(***************************************************************************)
MaxBatch == 11

beside_batch == <<fnvars, envvars, toolvars, browservars, reqvars, apivars>>

\* URLs on which urlparse raises ValueError (a bracket without its pair in the
\* host)
RefusedUrls == {"https://exa[mple.com/blog/2023/post-0", "http://[::1/x/y"}

\* n posts of one permalink structure, a refused URL in front of them or after
\* them, and a page of another structure
Batch(n, refused, front, about) ==
    (IF refused # "" /\ front THEN <<Link("Odd", refused)>> ELSE <<>>)
    \o [k \in 1..n |-> Link(PostNames[k], "https://example.com/blog/2023/" \o PostNames[k])]
    \o (IF about THEN <<Link("About", "https://example.com/blog/about")>> ELSE <<>>)
    \o (IF refused # "" /\ ~front THEN <<Link("Odd", refused)>> ELSE <<>>)

Batches ==
    {Batch(n, refused, front, about) :
        n \in 0..MaxBatch, refused \in RefusedUrls \cup {""}, front \in BOOLEAN,
        about \in BOOLEAN}

\* The pattern of every link, the URLs to exclude and the filtered list
Detected(t, all, patterns) ==
    [tool |-> t,
     patterns |-> patterns,
     urls_to_exclude |-> UrlsToExclude(all, patterns, threshold),
     filtered_links |-> ExcludeUrls(all, UrlsToExclude(all, patterns, threshold))]

\* detect_repeated_patterns(all_links, 10, url) and the filter, in either tool
Detect(t) ==
    /\ det_result.tool = "none"
    /\ det_result' = Detected(t, det_links,
                              MapSeq(det_links,
                                     LAMBDA l : PatternFor(t, l.url, "https://example.com/blog")))
    /\ UNCHANGED <<beside_batch, det_links, hd_page, hd_result>>

NextBatch == \E t \in {"aiohttp", "playwright"} : Detect(t)

InitBatch ==
    /\ ServerIdle("batch")
    /\ NoHelperCall
    /\ PLAYWRIGHT_AVAILABLE = TRUE
    /\ page = <<>>
    /\ url = ""
    /\ Idle
    /\ det_links \in Batches
    /\ det_result = NoDetection

SpecBatch == InitBatch /\ [][NextBatch]_vars

(***************************************************************************)
(* extract_headings on the h2 and h3 texts of a page                       *)
(***************************************************************************)
MaxTexts == 3

\* get_text(strip=True) of a heading: an empty text and texts that repeat
HeadingTexts == {"", "News", "About"}

RECURSIVE TextLists(_)
TextLists(n) ==
    IF n = 0 THEN {<<>>}
    ELSE TextLists(n - 1)
         \cup {Append(l, t) : l \in {m \in TextLists(n - 1) : Len(m) = n - 1}, t \in HeadingTexts}

\* A page with n numbered headings, the first of them numbered first
Numbered(n, first) == [k \in 1..n |-> "Section " \o ToString(first + k - 1)]

\* Pages with more headings than max_headings, some of them both h2 and h3
LongPages ==
    {[h2 |-> Numbered(a, 1), h3 |-> <<"">> \o Numbered(b, first)] :
        a \in {0, 60, max_headings + 1}, b \in {60, max_headings + 1}, first \in {1, 50, 200}}

HeadingPages ==
    {[h2 |-> h2, h3 |-> h3] : h2 \in TextLists(MaxTexts), h3 \in TextLists(MaxTexts)}
    \cup LongPages

\* headings = extract_headings(soup)
ExtractHeadings ==
    /\ ~hd_result.done
    /\ hd_result' = [done |-> TRUE, headings |-> extract_headings(hd_page.h2, hd_page.h3)]
    /\ UNCHANGED <<fnvars, envvars, toolvars, browservars, reqvars, apivars, det_links,
                   det_result, hd_page>>

NextHeadings == ExtractHeadings

InitHeadings ==
    /\ ServerIdle("headings")
    /\ NoHelperCall
    /\ PLAYWRIGHT_AVAILABLE = TRUE
    /\ page = <<>>
    /\ url = ""
    /\ Idle
    /\ hd_page \in HeadingPages
    /\ hd_result = NoHeadings

SpecHeadings == InitHeadings /\ [][NextHeadings]_vars

(***************************************************************************)
(* Claims about the helper functions (checked under SpecPattern)           *)
(***************************************************************************)
\* fp with bp taken off its front when it starts with bp, slashes trimmed
WithoutPrefix(fp, bp) ==
    Strip(IF bp # "" /\ StartsWith(fp, bp) THEN Drop(fp, Len(bp)) ELSE fp, "/")

\* The URL's path with the base URL's path taken off its front, slashes trimmed
RestOfPath(u, b) ==
    WithoutPrefix(Strip(urlparse(u).path, "/"), Strip(urlparse(b).path, "/"))

\* The pattern the claim describes, for a rest with '/' at the positions slashes
WildcardLast(rest, slashes, raw_path) ==
    IF slashes # {}
    THEN "/" \o Take(rest, Max(slashes) - 1) \o "/*/"
    ELSE raw_path

ShapeOfRest(rest, raw_path) ==
    WildcardLast(rest, {i \in 1..Len(rest) : Ch(rest, i) = "/"}, raw_path)

\* C4: for every URL and base URL that parse, the pattern is built from the rest
\* of the path: when the rest holds at least two segments (at least one '/'), the
\* pattern is '/' + the rest up to its last '/' (all segments but the last,
\* joined by '/') + '/*/'; otherwise it is the URL's raw, unstripped path.
C4_PatternShape ==
    (fn_pattern # <<>> /\ ~UrlParseRaises(fn_url) /\ ~UrlParseRaises(fn_base)) =>
        fn_pattern[1] = ShapeOfRest(RestOfPath(fn_url, fn_base), urlparse(fn_url).path)

\* C4's example: base https://example.com/blog and link /blog/about give /blog/about
C4_Witness ==
    /\ fn_base = "https://example.com/blog"
    /\ fn_url = "https://example.com/blog/about"
    /\ fn_pattern = <<"/blog/about">>

\* C5: the two tools compute the same pattern for the same (URL, base URL) pair
C5_SamePatternInBothTools ==
    (fn_pattern # <<>> /\ fn_pattern_pw # <<>>) => fn_pattern = fn_pattern_pw

\* C5 witness: both tools evaluated the pattern of a post under the blog base
C5_Witness ==
    /\ fn_base = "https://example.com/blog"
    /\ fn_url = "https://example.com/blog/2023/post-1"
    /\ fn_pattern = <<"/2023/*/">>
    /\ fn_pattern_pw = <<"/2023/*/">>

\* urlparse(url).hostname: the netloc without userinfo and port, lower-cased
AfterLast(netloc, ats) == IF ats = {} THEN netloc ELSE Drop(netloc, Max(ats))

HostOfNetloc(netloc) ==
    Lower(Split(AfterLast(netloc, {i \in 1..Len(netloc) : Ch(netloc, i) = "@"}), ":")[1])

HostOf(u) == HostOfNetloc(urlparse(u).netloc)

\* C6: is_same_domain(target) is true exactly when the target's host (port
\* stripped, lower-cased) equals the base URL's host or is a subdomain of it
C6_SameDomainIffHostMatches ==
    (fn_same # <<>> /\ ~UrlParseRaises(fn_url)) =>
        (fn_same[1] <=> SameOrSubdomain(HostOf(fn_url), HostOf(fn_base)))


(***************************************************************************)
(* Claims about one invocation of a link-extraction tool                   *)
(***************************************************************************)
\* The URLs of a list of links
UrlsOf(links) == {links[i].url : i \in 1..Len(links)}

\* The tool has returned a success payload
Returned == pc = "done" /\ payload.kind = "success"

\* How many links of the merged list share the pattern of the link at i
SharedBy(i) ==
    Cardinality({j \in 1..Len(all_links) :
                    PatternFor(tool, all_links[j].url, url)
                      = PatternFor(tool, all_links[i].url, url)})

\* C1: in both tools, when the tool returns, a link of the merged list whose
\* pattern is shared by at least 10 links of the merged list is absent from the
\* returned links, and a link whose pattern is shared by fewer than 10 is present
C1_ThresholdProperty ==
    Returned =>
        \A i \in 1..Len(all_links) :
            /\ SharedBy(i) >= 10 => all_links[i].url \notin UrlsOf(payload.links)
            /\ SharedBy(i) < 10 => all_links[i].url \in UrlsOf(payload.links)

\* C1 witness: a tool returned for a merged list in which exactly 10 links share
\* a pattern and were removed, while a link of another pattern was kept
C1_Witness ==
    /\ Returned
    /\ \E i \in 1..Len(all_links) :
          SharedBy(i) = 10 /\ all_links[i].url \notin UrlsOf(payload.links)
    /\ \E i \in 1..Len(all_links) :
          SharedBy(i) < 10 /\ all_links[i].url \in UrlsOf(payload.links)


\* The lists in the order the merge scans them
Scanned == header_links \o footer_links \o nav_links

\* The merged list exists: the tool is fetching headings or has returned
Merged == pc = "enriching" \/ Returned

NoDuplicateUrl(links) ==
    \A i, j \in 1..Len(links) : links[i].url = links[j].url => i = j

\* The positions of scan that hold the first occurrence of their URL
FirstPositions(scan) ==
    {i \in 1..Len(scan) : \A j \in 1..(i - 1) : scan[j].url # scan[i].url}

\* The entries of scan that are the first occurrence of their URL, in scan order
FirstOccurrences(scan) == Selection(scan, FirstPositions(scan))

SameEntries(links, expected) ==
    /\ Len(links) = Len(expected)
    /\ \A i \in 1..Len(links) :
          links[i].url = expected[i].url /\ links[i].text = expected[i].text

\* The position in the document of the first anchor that resolves to target
FirstAnchorOf(target) ==
    Min({i \in 1..Len(page) : urljoin(url, page[i].href) = target})

\* links follows the order in which the document first mentions each URL
InDocumentOrder(links) ==
    \A i, j \in 1..Len(links) :
        i < j => FirstAnchorOf(links[i].url) < FirstAnchorOf(links[j].url)

\* C2: once the merged list is built, no two of its entries have the same URL;
\* it holds exactly the first occurrence of each URL of header, footer, nav
\* scanned in that order, in that order; and when the JavaScript fallback
\* replaced it (the three lists are empty) its entries follow the order of
\* their first occurrence in the document
C2_MergedListDedup ==
    Merged =>
        /\ NoDuplicateUrl(all_links)
        /\ IF Len(Scanned) > 0
           THEN SameEntries(all_links, FirstOccurrences(Scanned))
           ELSE InDocumentOrder(all_links)

\* C2 witness: a tool returned after the merge dropped a second occurrence of a
\* URL and kept at least two entries
C2_Witness ==
    /\ Returned
    /\ Len(all_links) >= 2
    /\ Len(Scanned) > Len(all_links)


\* The anchor lies in a region the tools harvest: the header, the footer or a nav
InRegion(a) == a.region \in {"header", "footer"} \/ a.nav # 0

\* The href is one the claim excludes: mailto:, tel:, javascript: or a fragment
ExcludedHref(href) ==
    \/ StartsWith(href, "mailto:")
    \/ StartsWith(href, "tel:")
    \/ StartsWith(href, "javascript:")
    \/ StartsWith(href, "#")

\* C3: when either tool returns, no returned link is the link of a header,
\* footer or nav anchor whose href starts with mailto:, tel:, javascript: or '#',
\* whatever the anchor's text.  (The statement of the claim; the code violates it.)
C3_NoExcludedSchemes ==
    Returned =>
        \A i \in 1..Len(page) :
            (InRegion(page[i]) /\ ExcludedHref(page[i].href)) =>
                urljoin(url, page[i].href) \notin UrlsOf(payload.links)


(***************************************************************************)
(* Claims about the heading fetches of extract_site_links                  *)
(***************************************************************************)
\* The tasks whose fetch is in flight
InFlight == {k \in 1..Len(tasks) : tasks[k].state = "fetching"}

\* C7: at every moment of an invocation of extract_site_links at most 5 heading
\* fetches are in flight, and each of them holds one of the semaphore's 5
\* permits: the permits left are 5 minus the fetches in flight, so a permit is
\* taken when a fetch starts and given back when it ends, however it ends
C7_AtMostFiveInFlight ==
    /\ Cardinality(InFlight) <= 5
    /\ pc = "enriching" => sem = 5 - Cardinality(InFlight)

\* C7 witness: 5 fetches are in flight after an earlier fetch failed and gave
\* its permit back
C7_Witness ==
    /\ pc = "enriching"
    /\ Cardinality(InFlight) = 5
    /\ \E k \in 1..Len(tasks) : tasks[k].state = "done" /\ tasks[k].ended # "200"

\* extract_site_links has ended after it started heading fetches
EnrichmentOver == pc = "done" /\ tool = "aiohttp" /\ Len(tasks) > 0

\* The headings of the page at u
HeadingsAt(u) == extract_headings(H2Of(u), H3Of(u))

\* The URLs of a list of links, in order
UrlSeq(links) == [i \in 1..Len(links) |-> links[i].url]

\* C9: when extract_site_links ends after heading fetches, it returns the
\* success payload with the full filtered list; the link of every fetch that
\* failed (status other than 200, timeout or exception) has content_headings
\* [], and the link of every fetch that succeeded has its page's headings,
\* whatever happened to the other fetches
C9_FailedFetchGivesEmptyHeadings ==
    EnrichmentOver =>
        /\ payload.kind = "success"
        /\ UrlSeq(payload.links) = UrlSeq(FilterLinks("aiohttp", all_links, url))
        /\ \A k \in 1..Len(tasks) :
              payload.links[tasks[k].idx].content_headings =
                  IF tasks[k].ended = "200" THEN <<HeadingsAt(tasks[k].target_url)>>
                  ELSE << <<>> >>

\* C9 witness: the tool returned after one fetch got a status other than 200,
\* one raised and one succeeded
C9_Witness ==
    /\ EnrichmentOver
    /\ payload.kind = "success"
    /\ \E k \in 1..Len(tasks) : tasks[k].ended = "status"
    /\ \E k \in 1..Len(tasks) : tasks[k].ended = "exception"
    /\ \E k \in 1..Len(tasks) :
          /\ tasks[k].ended = "200"
          /\ payload.links[tasks[k].idx].content_headings # << <<>> >>

\* C10: when extract_site_links returns, the headings on the link at index i
\* are empty or the headings of the page at that link's own URL, and every fetch
\* that succeeded left its headings on the link it was created for, in whatever
\* order the fetches ended
C10_HeadingsStayWithTheirLink ==
    (Returned /\ tool = "aiohttp") =>
        /\ \A i \in 1..Len(payload.links) :
              payload.links[i].content_headings
                 \in {<< <<>> >>, <<HeadingsAt(payload.links[i].url)>>}
        /\ \A k \in 1..Len(tasks) :
              tasks[k].ended = "200" =>
                  /\ payload.links[tasks[k].idx].url = tasks[k].target_url
                  /\ payload.links[tasks[k].idx].content_headings
                        = <<HeadingsAt(tasks[k].target_url)>>

\* C10 witness: the tool returned after fetches ended out of creation order and
\* two of them succeeded, for links whose index differs from their task's position
C10_Witness ==
    /\ Returned
    /\ tool = "aiohttp"
    /\ overtaken
    /\ \E j, k \in 1..Len(tasks) :
          /\ j < k
          /\ tasks[j].ended = "200"
          /\ tasks[k].ended = "200"
          /\ tasks[k].idx # k
          /\ payload.links[tasks[j].idx].content_headings
                # payload.links[tasks[k].idx].content_headings


\* The target's host equals the host of the tool's url or is a subdomain of it
HostIsSameDomain(target) == SameOrSubdomain(HostOf(target), HostOf(url))

\* The indices of the filtered list whose link is on the same domain
SameDomainPositions ==
    SelectSeq([i \in 1..Len(filtered_links) |-> i],
              LAMBDA i : HostIsSameDomain(filtered_links[i].url))

\* The heading fetches of the invocation exist (each of them is started
\* before the tool returns)
FetchesCreated == tool = "aiohttp" /\ (pc = "enriching" \/ Returned)

\* C8: an invocation of extract_site_links makes at most 20 heading fetches, each
\* for a link on the same domain as the base URL, and exactly for the first 20
\* same-domain links of the filtered list, in its order.  (The statement of the
\* claim; the code violates it through is_same_domain, see C6.)
C8_FetchesOnlyFirstTwentySameDomain ==
    FetchesCreated =>
        /\ Len(tasks) <= 20
        /\ \A k \in 1..Len(tasks) : HostIsSameDomain(tasks[k].target_url)
        /\ [k \in 1..Len(tasks) |-> tasks[k].idx] = FirstN(SameDomainPositions, 20)


(***************************************************************************)
(* Claims about the server as a whole                                      *)
(***************************************************************************)
\* The browsers open at each place, over all invocations
OpenBrowsers == SumOver(Places, [pl \in Places |-> callers[pl] * BrowsersAt(pl.at)])

EndedIn(r, target) ==
    IF \E k \in 1..Len(r.tasks) : r.tasks[k].target_url = target
    THEN r.tasks[CHOOSE k \in 1..Len(r.tasks) : r.tasks[k].target_url = target].ended
    ELSE "200"

\* The filtered list of a lone invocation, each link that gets a fetch given the
\* headings of the response of r
AloneEnriched(r, filtered, eligible) ==
    [i \in 1..Len(filtered) |->
        IF \E k \in 1..Len(eligible) : eligible[k] = i
        THEN [filtered[i] EXCEPT !.content_headings =
                  <<fetch_headings_for_url(filtered[i].url, EndedIn(r, filtered[i].url))>>]
        ELSE [filtered[i] EXCEPT !.content_headings = << <<>> >>]]

AloneFiltered(r, header, footer, nav, all, filtered) ==
    SuccessPayload("aiohttp", r.url, all,
                   AloneEnriched(r, filtered, EligibleIndices(filtered, r.url)),
                   header, footer, nav)

AloneMerged(r, header, footer, nav, all) ==
    AloneFiltered(r, header, footer, nav, all, FilterLinks("aiohttp", all, r.url))

AloneLists(r, header, footer, nav) ==
    AloneMerged(r, header, footer, nav, MergeLinks(header, footer, nav))

\* The payload extract_site_links returns when it runs alone on the page and
\* the responses the invocation r got
AlonePayload(r) ==
    IF r.payload.kind = "error" THEN ErrorPayload("Failed to fetch page: 404", r.url)
    ELSE AloneLists(r, ExtractLinks("aiohttp", RegionAnchors(r.page, "header"), r.url),
                    ExtractLinks("aiohttp", RegionAnchors(r.page, "footer"), r.url),
                    NavLinks("aiohttp", r.page, r.url))

\* C12: in every interleaving of two concurrent invocations of
\* extract_site_links, the payload an invocation returns is the payload it
\* returns when it runs alone on the same page and the same responses
C12_PayloadAsWhenAlone ==
    \A i \in 1..Len(requests) :
        requests[i].pc = "done" => requests[i].payload = AlonePayload(requests[i])

\* C12 witness: both concurrent invocations returned a link of the same URL,
\* each with headings stored on it
C12_Witness ==
    /\ Len(requests) = 2
    /\ requests[1].pc = "done"
    /\ requests[2].pc = "done"
    /\ requests[1].payload.kind = "success"
    /\ requests[2].payload.kind = "success"
    /\ \E a \in 1..Len(requests[1].payload.links) :
       \E b \in 1..Len(requests[2].payload.links) :
          /\ requests[1].payload.links[a].url = requests[2].payload.links[b].url
          /\ requests[1].payload.links[a].content_headings # << <<>> >>
          /\ requests[2].payload.links[b].content_headings # << <<>> >>


(***************************************************************************)
(* Claims about the payloads of the link-extraction tools                  *)
(***************************************************************************)
\* The Playwright tool is turned down at its entry
TurnedDown == tool = "playwright" /\ (~PLAYWRIGHT_AVAILABLE \/ IsPdf(url))

\* C13: when extract_site_links or extract_site_links_with_playwright ends
\* without links (page status other than 200, exception, Playwright missing,
\* PDF URL), what it returns is an object with exactly the keys error, base_url
\* and links, base_url being the input URL and links the empty list; a tool
\* turned down at its entry never returns anything else
C13_ErrorPayloadShape ==
    pc = "done" =>
        /\ payload.kind \in {"success", "error"}
        /\ TurnedDown => payload.kind = "error"
        /\ payload.kind = "error" =>
              /\ payload.keys = {"error", "base_url", "links"}
              /\ payload.error # ""
              /\ payload.base_url = url
              /\ payload.links = <<>>

\* C13 witness: the Playwright tool returned the error payload for a PDF URL
C13_Witness ==
    /\ pc = "done"
    /\ tool = "playwright"
    /\ PLAYWRIGHT_AVAILABLE
    /\ IsPdf(url)
    /\ payload.kind = "error"
    /\ payload.error = "PDF files are not supported"
    /\ payload.base_url = url

\* The indices of the filtered list for which a heading fetch was made
Enriched == {tasks[k].idx : k \in 1..Len(tasks)}

\* C15: in every success payload of the two tools every link has a non-empty
\* text, a url and a content_headings list; a link for which no heading fetch
\* was made carries the empty list, and so does every link of the Playwright tool
C15_LinkKeys ==
    Returned =>
        \A i \in 1..Len(payload.links) :
            /\ payload.links[i].text # ""
            /\ payload.links[i].url # ""
            /\ Len(payload.links[i].content_headings) = 1
            /\ (tool = "playwright" \/ i \notin Enriched) =>
                  payload.links[i].content_headings = << <<>> >>

\* C15 witness: extract_site_links returned a link with headings and a link
\* for which no fetch was made, carrying the empty list
C15_Witness ==
    /\ Returned
    /\ tool = "aiohttp"
    /\ \E i \in 1..Len(payload.links) :
          i \in Enriched /\ payload.links[i].content_headings # << <<>> >>
    /\ \E i \in 1..Len(payload.links) :
          i \notin Enriched /\ payload.links[i].content_headings = << <<>> >>


(***************************************************************************)
(* Claims about the tools that query a WordPress API                       *)
(***************************************************************************)
\* C14: no tool raises to its caller: whichever way the request of a tool ends
\* (connection error, timeout, status >= 400, non-JSON or malformed body), the
\* invocation gives its caller a string (a message or a JSON payload), never an
\* exception
C14_NoToolRaises == wp_result.kind \in {"none", "text", "json"}

\* C18: for every integer per_page and page passed to one of the five tools, the
\* request sent to the WordPress API carries per_page = min(max(per_page, 1), 100),
\* a value in 1..100, and a page of at least 1
C18_PerPageAndPageSent ==
    wp_params.sent =>
        /\ wp_params.per_page \in 1..100
        /\ wp_params.per_page = Min({Max({wp_call.per_page, 1}), 100})
        /\ wp_params.page >= 1

\* C18 witness: a request was sent with per_page 100 and page 1 by a tool invoked
\* with a per_page above 100 and a page below 1
C18_Witness ==
    /\ wp_params.sent
    /\ wp_call.per_page > 100
    /\ wp_params.per_page = 100
    /\ wp_call.page < 1
    /\ wp_params.page = 1

(***************************************************************************)
(* Claims about read_google_sheet                                          *)
(***************************************************************************)
\* C16: whatever the outcome (library unavailable, credentials missing, API HTTP
\* error, spreadsheet without sheets, empty range, data present), an ended
\* invocation of read_google_sheet returned a JSON object with a boolean success
\* field, and with a message field whenever success is false
C16_AlwaysJsonWithSuccess ==
    gs_call.at = "returned" =>
        /\ gs_result.kind = "json"
        /\ "success" \in gs_result.keys
        /\ gs_result.success \in BOOLEAN
        /\ ~gs_result.success => "message" \in gs_result.keys

\* C17: the range read_google_sheet asks the values of is range_name itself when
\* it contains '!', sheet_name!range_name when it does not and sheet_name is
\* given, range_name alone otherwise, sheet_name when range_name is empty, and the
\* first sheet of the spreadsheet when both are empty; with both empty and a
\* spreadsheet without sheets it asks for nothing and returns the no_sheets error
C17_RangeResolution ==
    LET rn == gs_call.range_name
        sn == gs_call.sheet_name
    IN  /\ Len(gs_read) <= 1
        /\ gs_read # <<>> =>
              gs_read[1] = CASE \E i \in 1..Len(rn) : Sub(rn, i, i) = "!" -> rn
                             [] rn # "" /\ sn # "" -> sn \o "!" \o rn
                             [] rn # "" -> rn
                             [] sn # "" -> sn
                             [] OTHER -> Head(gs_call.sheet_names)
        /\ gs_call.listed =>
              IF rn = "" /\ sn = "" /\ gs_call.sheet_names = <<>>
                 THEN gs_read = <<>> /\ gs_result.error = "no_sheets"
                 ELSE gs_read # <<>>

\* C17 witness: the tool returned data after it asked for Sheet1!A1:C10, invoked
\* with range_name A1:C10 and sheet_name Sheet1
C17_Witness ==
    /\ gs_call.at = "returned"
    /\ gs_result.success
    /\ gs_call.range_name = "A1:C10"
    /\ gs_call.sheet_name = "Sheet1"
    /\ gs_read = <<"Sheet1!A1:C10">>

(***************************************************************************)
(* Claims about the Cloud GYM store tools                                  *)
(***************************************************************************)
\* The email tool returned
EmailReturned ==
    gym_call.tool = "generate_gym_introduction_email" /\ gym_call.at = "returned"

\* The positions, in the search result, of the posts whose page gave a store id
Yielding ==
    {i \in DOMAIN raw_posts :
        /\ raw_posts[i] # ""
        /\ extract_store_ids_from_post(PageAt(raw_posts[i])).store_ids # {}}

\* The position after which no page is to be fetched for the given limit: that of
\* the limit-th post that gave store ids, the end of the search result if there
\* are fewer
LastToFetch(limit) ==
    IF limit <= 0 THEN 0
    ELSE IF \E i \in Yielding : Cardinality({j \in Yielding : j <= i}) = limit
            THEN CHOOSE i \in Yielding : Cardinality({j \in Yielding : j <= i}) = limit
            ELSE Len(raw_posts)

\* The result of the email tool for the limit: posts with store ids only, at
\* most limit of them, in the order of the search, no page fetched once limit
\* posts are kept, and no_valid_posts without template when no post is kept
EmailResultFor(limit) ==
    /\ \A k \in DOMAIN gym_result.posts : gym_result.posts[k].store_ids # {}
    /\ \A k \in DOMAIN gym_result.posts : k <= limit
    /\ \E f \in [DOMAIN gym_result.posts -> DOMAIN raw_posts] :
          /\ \A k \in DOMAIN f : raw_posts[f[k]] = gym_result.posts[k].url
          /\ \A k, l \in DOMAIN f : k < l => f[k] < f[l]
    /\ fetched = SelectSeq(SubSeq(raw_posts, 1, LastToFetch(limit)), LAMBDA l : l # "")
    /\ gym_result.posts = <<>> =>
          /\ gym_result.error = "no_valid_posts"
          /\ "email_template" \notin gym_result.keys

\* C19: generate_gym_introduction_email includes a post only if its page yielded
\* a store id, includes at most max_posts posts, in search-result order, stops
\* fetching post pages once max_posts valid posts are collected, and returns
\* no_valid_posts instead of a template when no post qualifies
C19_AtMostMaxPosts == EmailReturned => EmailResultFor(gym_call.asked)

\* C19 as amended: the same with max(1, max_posts) in the place of max_posts
C19_AtMostClampedMaxPosts ==
    EmailReturned => EmailResultFor(IF gym_call.asked < 1 THEN 1 ELSE gym_call.asked)

\* C19 witness: asked for 2 posts, the tool returned 2 posts of a search result
\* of 3 posts after fetching 2 pages, the page of the third post left unfetched
C19_Witness ==
    /\ EmailReturned
    /\ gym_call.asked = 2
    /\ Len(gym_result.posts) = 2
    /\ Len(raw_posts) = 3
    /\ raw_posts[3] # ""
    /\ Len(fetched) = 2

\* C20: every element of store_ids returned by extract_store_ids_from_post is
\* store_ followed by one or more digits, whichever attribute it came from
C20_StoreIdForm ==
    gym_call.tool = "extract_store_ids_from_post" =>
        \A s \in gym_result.store_ids :
            /\ Len(s) > 6
            /\ SubSeq(s, 1, 6) = "store_"
            /\ \A i \in 7..Len(s) : SubSeq(s, i, i) \in Digits

(***************************************************************************)
(* Claims about the Rakuraku update tools                                  *)
(***************************************************************************)
\* An update-fields tool ran with credentials and handed container (normalized)
\* and fields_json on: with wrap_payload a container outside custom_fields, meta,
\* acf gives an error and no write; fields that pass as parsed are sent as
\* {container: fields} with wrap_payload and unchanged without it
FieldsToolSends(container, passes, fields) ==
    (upd_call.tool \in UpdateFieldsTools /\ upd_result.error # "credentials") =>
        /\ (upd_call.wrap_payload /\ container \notin {"custom_fields", "meta", "acf"}) =>
              /\ upd_sent = <<>>
              /\ upd_result.kind = "text"
              /\ upd_result.error # ""
        /\ (passes /\ upd_call.wrap_payload
              /\ container \in {"custom_fields", "meta", "acf"}) =>
              upd_sent = <<[top |-> {}, nested |-> {<<container, fields>>}]>>
        /\ (passes /\ ~upd_call.wrap_payload) =>
              upd_sent = <<[top |-> fields, nested |-> {}]>>

\* C21: in the update-fields tools with wrap_payload true, a container that,
\* after trimming and defaulting to custom_fields when empty, is not custom_fields,
\* meta or acf gives an error and no write request, and otherwise the body sent
\* is exactly {container: parsed fields}; with wrap_payload false the parsed JSON
\* object is sent unchanged
C21_BodyOfUpdateFields ==
    FieldsToolSends(IF Strip(upd_call.container, " ") = "" THEN "custom_fields"
                    ELSE Strip(upd_call.container, " "),
                    json_loads(upd_call.fields_json).type = "dict",
                    json_loads(upd_call.fields_json).items)

\* C21 as amended: the container is defaulted to custom_fields when empty and
\* then trimmed, and the parsed fields are a non-empty JSON object
C21_BodyOfUpdateFieldsAmended ==
    FieldsToolSends(Strip(IF upd_call.container = "" THEN "custom_fields"
                          ELSE upd_call.container, " "),
                    /\ json_loads(upd_call.fields_json).type = "dict"
                    /\ json_loads(upd_call.fields_json).items # {},
                    json_loads(upd_call.fields_json).items)

\* C21 witness: rakuraku_update_school_fields, invoked with container " acf " and
\* wrap_payload, sent {acf: {area: Tokyo}}
C21_Witness ==
    /\ upd_call.tool = "rakuraku_update_school_fields"
    /\ upd_call.wrap_payload
    /\ upd_call.container = " acf "
    /\ upd_sent = <<[top |-> {}, nested |-> {<<"acf", {<<"area", "Tokyo">>}>>}]>>

\* C29: the update-post tools call _rakuraku_wp_post never when validation fails:
\* fields_json that is given and is not JSON or not a JSON object gives an error
\* message, and a call without title, content, excerpt, slug, status and
\* non-empty fields gives the message asking for at least one update item
C29_NoWriteWhenValidationFails ==
    LET given == Strip(upd_call.fields_json, " ") # ""
        data == json_loads(upd_call.fields_json)
        invalid == given /\ data.type # "dict"
        nothing == /\ \A k \in {"title", "content", "excerpt", "slug", "status"} :
                         upd_call[k] = ""
                   /\ ~given \/ data.items = {}
    IN  (upd_call.tool \in UpdatePostTools /\ (invalid \/ nothing)) =>
            /\ upd_sent = <<>>
            /\ upd_call.at = "returned"
            /\ upd_result.kind = "text"
            /\ upd_result.error # "credentials" =>
                  upd_result.error =
                      IF invalid
                         THEN IF data.type = "JSONDecodeError" THEN "not_json"
                              ELSE "not_object"
                         ELSE "nothing_to_update"

\* C29 witness: rakuraku_update_media_post returned the not-an-object error for
\* fields_json [1] given with a title, and sent nothing
C29_Witness ==
    /\ upd_call.tool = "rakuraku_update_media_post"
    /\ upd_call.at = "returned"
    /\ upd_call.title = "x"
    /\ upd_call.fields_json = "[1]"
    /\ upd_result = [kind |-> "text", error |-> "not_object"]
    /\ upd_sent = <<>>

(***************************************************************************)
(* C22: a URL that fails to parse is its own pattern, the rest of the      *)
(* batch is counted and filtered as usual                                  *)
(***************************************************************************)
\* The links of the batch that are posts of the shared permalink structure
BatchPosts == {i \in DOMAIN det_links : det_links[i].text \notin {"Odd", "About"}}

\* The links of the batch whose URL urlparse refuses
BatchRefused == {i \in DOMAIN det_links : det_links[i].text = "Odd"}

\* The batch without the posts
BatchWithoutPosts == SelectSeq(det_links, LAMBDA l : l.text \in {"Odd", "About"})

\* C22: once detect_repeated_patterns has run on a batch, the pattern of a link
\* whose URL fails to parse is that URL itself, such a link is kept, and the other
\* links are excluded exactly when threshold or more of them share their
\* pattern: the posts go when there are at least threshold posts, the About
\* page stays, and the filtered list keeps the order of the batch.
C22_ParseFailureKeepsBatch ==
    det_result.tool # "none" =>
        /\ Len(det_result.patterns) = Len(det_links)
        /\ \A i \in BatchRefused :
              /\ det_result.patterns[i] = det_links[i].url
              /\ det_links[i].url \notin det_result.urls_to_exclude
        /\ \A i \in BatchPosts :
              det_links[i].url \in det_result.urls_to_exclude
                  <=> Cardinality(BatchPosts) >= threshold
        /\ \A i \in DOMAIN det_links :
              det_links[i].text = "About" =>
                  det_links[i].url \notin det_result.urls_to_exclude
        /\ det_result.filtered_links =
              IF Cardinality(BatchPosts) >= threshold THEN BatchWithoutPosts
              ELSE det_links

\* A batch of threshold posts or more with a refused URL and the About page:
\* the posts are filtered out and the two other links remain
C22_Witness ==
    /\ det_result.tool = "aiohttp"
    /\ BatchRefused # {}
    /\ Cardinality(BatchPosts) >= threshold
    /\ Len(det_result.filtered_links) = 2
    /\ \E i \in BatchRefused : det_result.patterns[i] = det_links[i].url

(***************************************************************************)
(* C23: the heading list has no duplicate, no empty text, at most          *)
(* max_headings entries, in first-seen order of h2 texts then h3 texts     *)
(***************************************************************************)
\* All h2 texts in document order, then all h3 texts in document order
MergedTexts == hd_page.h2 \o hd_page.h3

\* Where a text is first seen in that sequence
FirstSeen(t) == Min({k \in DOMAIN MergedTexts : MergedTexts[k] = t})

\* C23: the list extract_headings returns holds no text twice and no empty
\* text, has at most 100 entries, every entry is an h2 or h3 text of the page,
\* and the entries stand in the order in which their texts are first seen in
\* "all h2 texts, then all h3 texts"; no text seen before a listed one is left
\* out.
C23_HeadingList ==
    hd_result.done =>
        /\ \A i, j \in DOMAIN hd_result.headings :
              i # j => hd_result.headings[i] # hd_result.headings[j]
        /\ \A i \in DOMAIN hd_result.headings : hd_result.headings[i] # ""
        /\ Len(hd_result.headings) <= 100
        /\ \A i \in DOMAIN hd_result.headings :
              \E k \in DOMAIN MergedTexts : MergedTexts[k] = hd_result.headings[i]
        /\ \A i \in DOMAIN hd_result.headings :
              i > 1 => FirstSeen(hd_result.headings[i - 1]) < FirstSeen(hd_result.headings[i])
        /\ \A k \in DOMAIN MergedTexts :
              (/\ MergedTexts[k] # ""
               /\ \/ Len(hd_result.headings) < 100
                  \/ k < FirstSeen(hd_result.headings[Len(hd_result.headings)]))
              => \E i \in DOMAIN hd_result.headings : hd_result.headings[i] = MergedTexts[k]

\* A page with more than 100 different headings, some of them both h2 and h3
\* and one empty: the list stops at 100
C23_Witness ==
    /\ hd_result.done
    /\ Len(hd_page.h2) = 60
    /\ Len(hd_page.h3) = 102
    /\ hd_page.h3[2] = "Section 50"
    /\ Len(hd_result.headings) = 100
    /\ hd_result.headings[61] = "Section 61"

(***************************************************************************)
(* C24: a nav is harvested exactly when it lies outside the header         *)
(***************************************************************************)
\* The links of the navs of the page that lie outside the header
LinksOfOutsideNavs ==
    UNION {{ExtractLinks(tool, NavAnchors(page, n), url)[k] :
               k \in DOMAIN ExtractLinks(tool, NavAnchors(page, n), url)} :
           n \in {m \in NavIds : NavAnchors(page, m) # <<>> /\ ~InHeader(page, m)}}

\* C24: in a success payload built from the regions, nav_links holds the links
\* of every nav outside the header, also of one whose markup equals that of a
\* nav inside the header, and holds nothing else; the nav count of the payload
\* is zero only when no nav outside the header has a link.
C24_NavHarvestedIffOutsideHeader ==
    (payload.kind = "success" /\ pc = "done") =>
        /\ {nav_links[k] : k \in DOMAIN nav_links} = LinksOfOutsideNavs
        /\ (payload.sections.nav_links = 0 <=> LinksOfOutsideNavs = {})

(***************************************************************************)
(* C25: the region counts account for the returned links                   *)
(***************************************************************************)
\* C25: in every success payload total_links is at most the sum of the three
\* region counts.
C25_CountsAccountForLinks ==
    payload.kind = "success" =>
        payload.total_links <= payload.sections.header_links
                               + payload.sections.footer_links
                               + payload.sections.nav_links

(***************************************************************************)
(* C26: the filtered links are counted and are a subsequence of the merged *)
(* list                                                                    *)
(***************************************************************************)
\* Where the merged list holds the link with this text and URL
PlaceInMerged(l) ==
    {k \in DOMAIN all_links : all_links[k].url = l.url /\ all_links[k].text = l.text}

\* links is what remains of the merged list when some of its entries are taken
\* out: every link has its place in the merged list and the places rise
SubsequenceOfMerged(links) ==
    /\ \A i \in DOMAIN links : PlaceInMerged(links[i]) # {}
    /\ \A i \in DOMAIN links :
          i > 1 => Min(PlaceInMerged(links[i - 1])) < Min(PlaceInMerged(links[i]))

\* C26: in every success payload filtered_links is the length of links, is at
\* most total_links (the length of the merged list), and links is the merged
\* list with some entries removed, the others in their order.
C26_FilteredIsSubsequence ==
    Returned =>
        /\ payload.filtered_links = Len(payload.links)
        /\ payload.filtered_links <= payload.total_links
        /\ payload.total_links = Len(all_links)
        /\ SubsequenceOfMerged(payload.links)

\* A tool returned after the filter removed the posts and kept two links or more
C26_Witness ==
    /\ Returned
    /\ payload.filtered_links >= 2
    /\ payload.filtered_links + threshold <= payload.total_links

(***************************************************************************)
(* C27: the base path is stripped on a segment boundary only               *)
(***************************************************************************)
\* The segments of a path
SegmentsOf(path) ==
    {Split(Strip(path, "/"), "/")[k] : k \in DOMAIN Split(Strip(path, "/"), "/")}

\* C27: every segment of a pattern extract_url_pattern returns for a URL that
\* parses, the wildcard apart, is a whole segment of the URL's path.
C27_StripsOnSegmentBoundary ==
    (fn_pattern # <<>> /\ ~UrlParseRaises(fn_url) /\ ~UrlParseRaises(fn_base)) =>
        SegmentsOf(fn_pattern[1]) \ {"*"} \subseteq SegmentsOf(urlparse(fn_url).path)

(***************************************************************************)
(* C28: the permits of browser_semaphore are balanced                      *)
(***************************************************************************)
\* The places between entering and leaving `async with browser_semaphore`
PermitPlaces == {"acquired", "browser", "parsing", "relaunch", "browser2", "closing"}

\* The invocations that hold a permit
Holding ==
    SumOver(Places, [pl \in Places |-> IF pl.at \in PermitPlaces THEN callers[pl] ELSE 0])

\* The invocations that have not returned yet
NotReturned ==
    SumOver(Places, [pl \in Places |-> IF pl.at # "returned" THEN callers[pl] ELSE 0])

\* C28: the permits taken from browser_semaphore are exactly those of the
\* invocations between acquire and release, whatever path they took (success,
\* an exception, an exception on the JavaScript fallback): an invocation that
\* has returned or was turned down early (no Playwright, a .pdf URL) holds no
\* permit and no browser, and once every invocation has returned 5 permits are
\* available.
C28_PermitsBalanced ==
    /\ browser_semaphore + Holding = 5
    /\ OpenBrowsers <= Holding
    /\ NotReturned = 0 => browser_semaphore = 5

\* Every invocation has returned, one of them turned down for a PDF URL and
\* one after an exception on the JavaScript fallback, and 5 permits are back
C28_Witness ==
    /\ PLAYWRIGHT_AVAILABLE
    /\ Invocations(callers) = MaxCalls
    /\ NotReturned = 0
    /\ exits.rejected
    /\ exits.fallback_failed
    /\ browser_semaphore = 5
====
